---- MODULE Spec2Model ----
(***************************************************************************)
(* A model of the core of yoto-js: the webhook signature verifier          *)
(* (src/src/webhooks.ts), the token-expiry check and the refreshable auth  *)
(* provider (src/unnamed/part_003, src/src/resources/family.ts) and the    *)
(* HTTP request pipeline (src/src/http-client.ts).                         *)
(*                                                                         *)
(* JavaScript strings are sequences of one-character strings; a character  *)
(* outside ASCII is written by its code point name ("U+00E9").  A value    *)
(* that may be undefined is the sequence Undefined, which no string        *)
(* equals.  Numbers that may be NaN are records [nan, val].  The backtick  *)
(* is written "BQ" in the character table.                                 *)
(***************************************************************************)
EXTENDS Integers, Sequences, FiniteSets, TLC

----------------------------------------------------------------------------
(* Characters and strings                                                  *)

Ascii ==
  << " ", "!", "\"", "#", "$", "%", "&", "'", "(", ")", "*", "+", ",", "-", ".", "/",
     "0", "1", "2", "3", "4", "5", "6", "7", "8", "9", ":", ";", "<", "=", ">", "?",
     "@", "A", "B", "C", "D", "E", "F", "G", "H", "I", "J", "K", "L", "M", "N", "O",
     "P", "Q", "R", "S", "T", "U", "V", "W", "X", "Y", "Z", "[", "\\", "]", "^", "_",
     "BQ", "a", "b", "c", "d", "e", "f", "g", "h", "i", "j", "k", "l", "m", "n", "o",
     "p", "q", "r", "s", "t", "u", "v", "w", "x", "y", "z", "{", "|", "}", "~" >>

AsciiSet == {Ascii[i] : i \in 1..Len(Ascii)}

\* The code unit of a character; a character outside ASCII (U+00E9) is 233.
OrdTable == [c \in AsciiSet |-> 31 + (CHOOSE i \in 1..Len(Ascii) : Ascii[i] = c)]

Ord(c) == IF c \in AsciiSet THEN OrdTable[c] ELSE 233

\* The character of a byte; a byte outside printable ASCII is the one
\* stand-in "NP", which is no character of any literal of the model.
Chr(n) == IF n \in 32..126 THEN Ascii[n - 31] ELSE "NP"

\* The number of bytes of a character in UTF-8.
Utf8Len(c) == IF c \in AsciiSet THEN 1 ELSE 2

Undefined == <<"undefined">>

\* JavaScript's !s for a string or undefined.
Falsy(s) == s = Undefined \/ s = <<>>

Digits == {"0", "1", "2", "3", "4", "5", "6", "7", "8", "9"}

Whitespace == {" "}

RECURSIVE NatToStr(_)
NatToStr(n) ==
  IF n < 10 THEN <<Chr(48 + n)>>
  ELSE NatToStr(n \div 10) \o <<Chr(48 + (n % 10))>>

\* String(n) for an integer n.
NumToStr(n) == IF n < 0 THEN <<"-">> \o NatToStr(0 - n) ELSE NatToStr(n)

RECURSIVE DropWhile(_, _)
DropWhile(s, set) ==
  IF s # <<>> /\ Head(s) \in set THEN DropWhile(Tail(s), set) ELSE s

RECURSIVE TakeWhile(_, _)
TakeWhile(s, set) ==
  IF s # <<>> /\ Head(s) \in set THEN <<Head(s)>> \o TakeWhile(Tail(s), set) ELSE <<>>

RECURSIVE DigitsToNat(_, _)
DigitsToNat(s, acc) ==
  IF s = <<>> THEN acc ELSE DigitsToNat(Tail(s), acc * 10 + (Ord(Head(s)) - 48))

NaN == [nan |-> TRUE, val |-> 0]

Num(n) == [nan |-> FALSE, val |-> n]

\* Number.parseInt(s, 10): leading whitespace and one sign are skipped, the
\* longest run of digits is read, anything after it is ignored; NaN when
\* there is no digit.
ParseInt(s) ==
  LET s1 == IF s = Undefined THEN <<>> ELSE DropWhile(s, Whitespace)
      neg == s1 # <<>> /\ Head(s1) = "-"
      s2 == IF s1 # <<>> /\ Head(s1) \in {"-", "+"} THEN Tail(s1) ELSE s1
      ds == TakeWhile(s2, Digits)
  IN IF ds = <<>> THEN NaN
     ELSE Num(IF neg THEN 0 - DigitsToNat(ds, 0) ELSE DigitsToNat(ds, 0))

\* a > b in JavaScript: false when either side is NaN.
NumGT(a, b) == ~a.nan /\ ~b.nan /\ a.val > b.val

\* a < b in JavaScript: false when either side is NaN.
NumLT(a, b) == ~a.nan /\ ~b.nan /\ a.val < b.val

NumSub(a, b) == IF a.nan \/ b.nan THEN NaN ELSE Num(a.val - b.val)

NumMul(a, b) == IF a.nan \/ b.nan THEN NaN ELSE Num(a.val * b.val)

\* The index of the first sep in s, 0 when there is none.
IndexOf(s, sep) ==
  IF \E i \in 1..Len(s) : s[i] = sep
  THEN CHOOSE i \in 1..Len(s) : s[i] = sep /\ \A j \in 1..(i - 1) : s[j] # sep
  ELSE 0

\* s.split(sep) for a one-character separator: "" splits to [""].
RECURSIVE Split(_, _)
Split(s, sep) ==
  LET i == IndexOf(s, sep)
  IN IF i = 0 THEN <<s>>
     ELSE <<SubSeq(s, 1, i - 1)>> \o Split(SubSeq(s, i + 1, Len(s)), sep)

\* s.replace(/from/g, to) for one character.
ReplaceAll(s, from, to) == [i \in 1..Len(s) |-> IF s[i] = from THEN to ELSE s[i]]

RECURSIVE Join(_, _)
Join(parts, sep) ==
  IF parts = <<>> THEN <<>>
  ELSE IF Len(parts) = 1 THEN parts[1]
  ELSE parts[1] \o <<sep>> \o Join(Tail(parts), sep)

----------------------------------------------------------------------------
(* JSON values, JSON.stringify and JSON.parse                              *)

JNull == [t |-> "null"]

JBool(b) == [t |-> "bool", b |-> b]

JNum(n) == [t |-> "num", n |-> n]

JStr(s) == [t |-> "str", s |-> s]

\* An object: its members in insertion order, each [k |-> key, v |-> value].
JObj(members) == [t |-> "obj", m |-> members]

RECURSIVE EscapeJSON(_)
EscapeJSON(s) ==
  IF s = <<>> THEN <<>>
  ELSE (IF Head(s) \in {"\"", "\\"} THEN <<"\\", Head(s)>> ELSE <<Head(s)>>)
       \o EscapeJSON(Tail(s))

QuoteJSON(s) == <<"\"">> \o EscapeJSON(s) \o <<"\"">>

RECURSIVE JSONStringify(_)
JSONStringify(v) ==
  CASE v.t = "null" -> <<"n", "u", "l", "l">>
    [] v.t = "bool" -> IF v.b THEN <<"t", "r", "u", "e">> ELSE <<"f", "a", "l", "s", "e">>
    [] v.t = "num" -> NumToStr(v.n)
    [] v.t = "str" -> QuoteJSON(v.s)
    [] v.t = "obj" ->
         <<"{">>
         \o Join([i \in 1..Len(v.m) |->
                    QuoteJSON(v.m[i].k) \o <<":">> \o JSONStringify(v.m[i].v)], ",")
         \o <<"}">>

ParseFail == [ok |-> FALSE, val |-> JNull, rest |-> <<>>]

ParseOk(v, rest) == [ok |-> TRUE, val |-> v, rest |-> rest]

SkipWs(s) == DropWhile(s, Whitespace)

StartsWith(s, p) == Len(s) >= Len(p) /\ SubSeq(s, 1, Len(p)) = p

\* The rest of a string literal after its opening quote.  The escapes \" \\
\* and \/ are read; any other escape and any byte outside printable ASCII
\* end the parse with an error.
RECURSIVE ParseStringBody(_, _)
ParseStringBody(s, acc) ==
  IF s = <<>> THEN ParseFail
  ELSE IF Head(s) = "\"" THEN ParseOk(acc, Tail(s))
  ELSE IF Head(s) = "\\"
       THEN IF Len(s) >= 2 /\ s[2] \in {"\"", "\\", "/"}
            THEN ParseStringBody(SubSeq(s, 3, Len(s)), Append(acc, s[2]))
            ELSE ParseFail
  ELSE IF Head(s) \notin AsciiSet THEN ParseFail
  ELSE ParseStringBody(Tail(s), Append(acc, Head(s)))

\* An integer literal: -?(0|[1-9][0-9]*); a fraction or an exponent is not
\* read (no input of the model has one).
ParseNumber(s) ==
  LET neg == s # <<>> /\ Head(s) = "-"
      s1 == IF neg THEN Tail(s) ELSE s
      ds == TakeWhile(s1, Digits)
      rest == SubSeq(s1, Len(ds) + 1, Len(s1))
  IN IF ds = <<>> \/ (Len(ds) > 1 /\ Head(ds) = "0") THEN ParseFail
     ELSE IF rest # <<>> /\ Head(rest) \in {".", "e", "E"} THEN ParseFail
     ELSE ParseOk(JNum(IF neg THEN 0 - DigitsToNat(ds, 0) ELSE DigitsToNat(ds, 0)), rest)

\* obj[k] = v: a repeated key keeps its place and takes the later value.
SetKey(members, k, v) ==
  IF \E i \in 1..Len(members) : members[i].k = k
  THEN [i \in 1..Len(members) |->
          IF members[i].k = k THEN [k |-> k, v |-> v] ELSE members[i]]
  ELSE Append(members, [k |-> k, v |-> v])

RECURSIVE ParseValue(_)
RECURSIVE ParseMembers(_, _)
ParseValue(s0) ==
  LET s == SkipWs(s0)
  IN IF s = <<>> THEN ParseFail
     ELSE IF Head(s) = "{"
          THEN LET s1 == SkipWs(Tail(s))
               IN IF s1 # <<>> /\ Head(s1) = "}" THEN ParseOk(JObj(<<>>), Tail(s1))
                  ELSE ParseMembers(s1, <<>>)
     ELSE IF Head(s) = "\""
          THEN LET r == ParseStringBody(Tail(s), <<>>)
               IN IF r.ok THEN ParseOk(JStr(r.val), r.rest) ELSE ParseFail
     ELSE IF Head(s) = "-" \/ Head(s) \in Digits THEN ParseNumber(s)
     ELSE IF StartsWith(s, <<"t", "r", "u", "e">>)
          THEN ParseOk(JBool(TRUE), SubSeq(s, 5, Len(s)))
     ELSE IF StartsWith(s, <<"f", "a", "l", "s", "e">>)
          THEN ParseOk(JBool(FALSE), SubSeq(s, 6, Len(s)))
     ELSE IF StartsWith(s, <<"n", "u", "l", "l">>)
          THEN ParseOk(JNull, SubSeq(s, 5, Len(s)))
     ELSE ParseFail

ParseMembers(s0, acc) ==
  LET s == SkipWs(s0)
  IN IF s = <<>> \/ Head(s) # "\"" THEN ParseFail
     ELSE LET k == ParseStringBody(Tail(s), <<>>)
              s1 == SkipWs(k.rest)
          IN IF ~k.ok \/ s1 = <<>> \/ Head(s1) # ":" THEN ParseFail
             ELSE LET v == ParseValue(Tail(s1))
                      s2 == SkipWs(v.rest)
                      members == SetKey(acc, k.val, v.val)
                  IN IF ~v.ok \/ s2 = <<>> THEN ParseFail
                     ELSE IF Head(s2) = "," THEN ParseMembers(Tail(s2), members)
                     ELSE IF Head(s2) = "}" THEN ParseOk(JObj(members), Tail(s2))
                     ELSE ParseFail

\* JSON.parse(s): [ok |-> TRUE, val |-> value], or ok = FALSE for a SyntaxError.
JSONParse(s) ==
  LET r == ParseValue(s)
  IN IF r.ok /\ SkipWs(r.rest) = <<>> THEN [ok |-> TRUE, val |-> r.val]
     ELSE [ok |-> FALSE, val |-> JNull]

\* obj.k of a parsed value: Undefined when the value has no such member.
HasMember(v, k) == v.t = "obj" /\ \E i \in 1..Len(v.m) : v.m[i].k = k

Member(v, k) == v.m[CHOOSE i \in 1..Len(v.m) : v.m[i].k = k].v

----------------------------------------------------------------------------
(* Base64: btoa and atob                                                   *)

B64Alphabet ==
  << "A", "B", "C", "D", "E", "F", "G", "H", "I", "J", "K", "L", "M", "N", "O", "P",
     "Q", "R", "S", "T", "U", "V", "W", "X", "Y", "Z", "a", "b", "c", "d", "e", "f",
     "g", "h", "i", "j", "k", "l", "m", "n", "o", "p", "q", "r", "s", "t", "u", "v",
     "w", "x", "y", "z", "0", "1", "2", "3", "4", "5", "6", "7", "8", "9", "+", "/" >>

B64Set == {B64Alphabet[i] : i \in 1..Len(B64Alphabet)}

B64Table == [c \in B64Set |-> (CHOOSE i \in 1..Len(B64Alphabet) : B64Alphabet[i] = c) - 1]

B64Val(c) == B64Table[c]

RECURSIVE B64Encode(_, _, _)
B64Encode(bytes, acc, nbits) ==
  IF bytes = <<>>
  THEN IF nbits = 0 THEN <<>>
       ELSE IF nbits = 2 THEN <<B64Alphabet[acc * 16 + 1], "=", "=">>
       ELSE <<B64Alphabet[acc * 4 + 1], "=">>
  ELSE LET a == acc * 256 + Ord(Head(bytes))
           n == nbits + 8
       IN IF n >= 12
          THEN <<B64Alphabet[(a \div 64) + 1], B64Alphabet[(a % 64) + 1]>>
               \o B64Encode(Tail(bytes), 0, 0)
          ELSE <<B64Alphabet[(a \div (2 ^ (n - 6))) + 1]>>
               \o B64Encode(Tail(bytes), a % (2 ^ (n - 6)), n - 6)

\* btoa(s) for a string of ASCII characters.
Btoa(s) == B64Encode(s, 0, 0)

RECURSIVE B64Decode(_, _, _)
B64Decode(s, acc, nbits) ==
  IF s = <<>> THEN <<>>
  ELSE LET a == acc * 64 + B64Val(Head(s))
           n == nbits + 6
       IN IF n >= 8
          THEN <<Chr(a \div (2 ^ (n - 8)))>> \o B64Decode(Tail(s), a % (2 ^ (n - 8)), n - 8)
          ELSE B64Decode(Tail(s), a, n)

\* atob(s), the forgiving base64 decode: whitespace is removed, one or two
\* trailing "=" of a padded input are removed, a length of 1 mod 4 or a
\* character outside the alphabet is an error, left-over bits are dropped.
Atob(s) ==
  LET s1 == SelectSeq(s, LAMBDA c : c \notin Whitespace)
      s2 == IF Len(s1) % 4 = 0 /\ Len(s1) >= 2 /\ s1[Len(s1)] = "="
            THEN IF s1[Len(s1) - 1] = "=" THEN SubSeq(s1, 1, Len(s1) - 2)
                 ELSE SubSeq(s1, 1, Len(s1) - 1)
            ELSE s1
  IN IF Len(s2) % 4 = 1 \/ \E i \in 1..Len(s2) : s2[i] \notin B64Set
     THEN [ok |-> FALSE, val |-> <<>>]
     ELSE [ok |-> TRUE, val |-> B64Decode(s2, 0, 0)]

----------------------------------------------------------------------------
(* The webhook verifier: src/src/webhooks.ts                               *)

TIMESTAMP_TOLERANCE == 300

\* The number of hex characters of a digest in the model (64 in SHA-256).
DigestHexLen == 4

HexDigits ==
  <<"0", "1", "2", "3", "4", "5", "6", "7", "8", "9", "a", "b", "c", "d", "e", "f">>

RECURSIVE PolyHash(_, _, _)
PolyHash(s, acc, m) ==
  IF s = <<>> THEN acc ELSE PolyHash(Tail(s), (acc * 31 + Ord(Head(s))) % m, m)

RECURSIVE ToHex(_, _)
ToHex(n, len) ==
  IF len = 0 THEN <<>> ELSE ToHex(n \div 16, len - 1) \o <<HexDigits[(n % 16) + 1]>>

\* createHmac("sha256", secret).update(msg, "utf8").digest("hex"): a keyed
\* digest of fixed length, a function of every character of key and message.
HmacSha256Hex(secret, msg) ==
  ToHex(PolyHash(msg, PolyHash(secret, 7, 16 ^ DigestHexLen), 16 ^ DigestHexLen),
        DigestHexLen)

computeSignature(timestamp, payload, secret) ==
  HmacSha256Hex(secret, timestamp \o <<".">> \o payload)

RECURSIVE ByteLength(_)
ByteLength(s) == IF s = <<>> THEN 0 ELSE Utf8Len(Head(s)) + ByteLength(Tail(s))

\* "true", "false", or "RangeError": timingSafeEqual throws when its two
\* buffers differ in byte length.
secureCompare(a, b) ==
  IF Len(a) # Len(b) THEN "false"
  ELSE IF ByteLength(a) # ByteLength(b) THEN "RangeError"
  ELSE IF a = b THEN "true" ELSE "false"

Thrown(name, message) == [kind |-> "error", name |-> name, message |-> message, event |-> JNull]

Returned(event) == [kind |-> "event", name |-> "", message |-> "", event |-> event]

\* The loop over the header's parts: a later t or v1 replaces an earlier one;
\* [key, value] = part.split("=") takes the first two pieces.
RECURSIVE ParseSignatureParts(_, _, _)
ParseSignatureParts(parts, timestamp, providedSignature) ==
  IF parts = <<>> THEN [timestamp |-> timestamp, providedSignature |-> providedSignature]
  ELSE LET kv == Split(Head(parts), "=")
           key == kv[1]
           value == IF Len(kv) >= 2 THEN kv[2] ELSE Undefined
       IN IF key = <<"t">> THEN ParseSignatureParts(Tail(parts), value, providedSignature)
          ELSE IF key = <<"v", "1">> THEN ParseSignatureParts(Tail(parts), timestamp, value)
          ELSE ParseSignatureParts(Tail(parts), timestamp, providedSignature)

NoOptions == [has |-> FALSE, tolerance |-> 0]

ToleranceOption(n) == [has |-> TRUE, tolerance |-> n]

\* The format check of constructEvent: !timestamp || !providedSignature.
InvalidFormat_OnlyTimestamp(h) == Falsy(h.timestamp)

InvalidFormat(h) == Falsy(h.timestamp) \/ Falsy(h.providedSignature)

OutsideTolerance_AtOrPast(currentTime, timestampSeconds, tolerance) ==
  ~NumLT(NumSub(Num(currentTime), timestampSeconds), Num(tolerance))

OutsideTolerance_BothSides(currentTime, timestampSeconds, tolerance) ==
  \/ NumGT(NumSub(Num(currentTime), timestampSeconds), Num(tolerance))
  \/ NumGT(NumSub(timestampSeconds, Num(currentTime)), Num(tolerance))

\* The timestamp check of constructEvent: currentTime - timestampSeconds > tolerance.
OutsideTolerance(currentTime, timestampSeconds, tolerance) ==
  NumGT(NumSub(Num(currentTime), timestampSeconds), Num(tolerance))

VerifyAndParse_ParsesFirst(timestamp, providedSignature, payload, secret) ==
  LET expectedSignature == computeSignature(timestamp, payload, secret)
      cmp == secureCompare(expectedSignature, providedSignature)
      parsed == JSONParse(payload)
  IN IF ~parsed.ok THEN Thrown("Error", "Invalid JSON payload")
     ELSE IF cmp = "RangeError"
     THEN Thrown("RangeError", "Input buffers must have the same byte length")
     ELSE IF cmp = "false" THEN Thrown("Error", "Signature verification failed")
     ELSE Returned(parsed.val)

\* The signature check of constructEvent, after the timestamp check.
VerifyAndParse(timestamp, providedSignature, payload, secret) ==
  LET expectedSignature == computeSignature(timestamp, payload, secret)
      cmp == secureCompare(expectedSignature, providedSignature)
      parsed == JSONParse(payload)
  IN IF cmp = "RangeError"
     THEN Thrown("RangeError", "Input buffers must have the same byte length")
     ELSE IF cmp = "false" THEN Thrown("Error", "Signature verification failed")
     ELSE IF ~parsed.ok THEN Thrown("Error", "Invalid JSON payload")
     ELSE Returned(parsed.val)

constructEvent(payload, signature, secret, options, nowMs) ==
  LET tolerance == IF options.has THEN options.tolerance ELSE TIMESTAMP_TOLERANCE
  IN IF Falsy(signature) THEN Thrown("Error", "No signature provided")
     ELSE LET h == ParseSignatureParts(Split(signature, ","), Undefined, Undefined)
          IN IF InvalidFormat(h)
             THEN Thrown("Error", "Invalid signature format")
             ELSE IF OutsideTolerance(nowMs \div 1000, ParseInt(h.timestamp), tolerance)
                  THEN Thrown("Error", "Timestamp outside tolerance window")
                  ELSE VerifyAndParse(h.timestamp, h.providedSignature, payload, secret)

StringPayload(s) == [type |-> "string", s |-> s, o |-> JNull]

ObjectPayload(o) == [type |-> "object", s |-> <<>>, o |-> o]

NoTimestamp == [has |-> FALSE, val |-> 0]

TimestampOption(n) == [has |-> TRUE, val |-> n]

\* The string generateTestHeaderString signs: a string payload as it is, an
\* object payload serialized.
payloadString(payload) ==
  IF payload.type = "string" THEN payload.s ELSE JSONStringify(payload.o)

\* timestamp || Math.floor(Date.now() / 1000): a timestamp of 0 is replaced too.
timestampSeconds(timestamp, nowMs) ==
  IF timestamp.has /\ timestamp.val # 0 THEN timestamp.val ELSE nowMs \div 1000

generateTestHeaderString_SignsPayloadOnly(payload, secret, timestamp, nowMs) ==
  LET ts == NumToStr(timestampSeconds(timestamp, nowMs))
      signature == HmacSha256Hex(secret, payloadString(payload))
  IN <<"t", "=">> \o ts \o <<",", "v", "1", "=">> \o signature

generateTestHeaderString(payload, secret, timestamp, nowMs) ==
  LET ts == NumToStr(timestampSeconds(timestamp, nowMs))
      signature == computeSignature(ts, payloadString(payload), secret)
  IN <<"t", "=">> \o ts \o <<",", "v", "1", "=">> \o signature

----------------------------------------------------------------------------
(* Token expiry: decodeJWT and isTokenExpired of src/unnamed/part_003      *)

\* JavaScript's !v for a parsed JSON value.
FalsyValue(v) ==
  \/ v.t = "null"
  \/ (v.t = "bool" /\ ~v.b)
  \/ (v.t = "num" /\ v.n = 0)
  \/ (v.t = "str" /\ v.s = <<>>)

\* The number a parsed JSON value is converted to by v * 1000: a string of
\* digits is its number, any other string and any object is NaN.
ToNumber(v) ==
  CASE v.t = "num" -> Num(v.n)
    [] v.t = "bool" -> Num(IF v.b THEN 1 ELSE 0)
    [] v.t = "null" -> Num(0)
    [] v.t = "str" ->
         IF v.s # <<>> /\ \A i \in 1..Len(v.s) : v.s[i] \in Digits
         THEN Num(DigitsToNat(v.s, 0)) ELSE NaN
    [] OTHER -> NaN

\* decodeJWT: [ok |-> FALSE] when it throws.
decodeJWT(token) ==
  LET parts == Split(token, ".")
  IN IF Len(parts) # 3 THEN [ok |-> FALSE, val |-> JNull]
     ELSE IF parts[2] = <<>> THEN [ok |-> FALSE, val |-> JNull]
     ELSE LET base64 == ReplaceAll(ReplaceAll(parts[2], "-", "+"), "_", "/")
              jsonPayload == Atob(base64)
          IN IF ~jsonPayload.ok THEN [ok |-> FALSE, val |-> JNull]
             ELSE JSONParse(jsonPayload.val)

ExpiredAt_NoBuffer(exp, nowMs) == NumLT(NumMul(exp, Num(1000)), Num(nowMs))

\* decoded.exp * 1000 < Date.now() + 30000
ExpiredAt(exp, nowMs) == NumLT(NumMul(exp, Num(1000)), Num(nowMs + 30000))

\* isTokenExpired: a token that does not decode, a payload that is null (its
\* exp cannot be read) and a payload without a truthy exp are expired.
isTokenExpired(accessToken, nowMs) ==
  LET decoded == decodeJWT(accessToken)
  IN IF ~decoded.ok THEN TRUE
     ELSE IF decoded.val.t = "null" THEN TRUE
     ELSE IF ~HasMember(decoded.val, <<"e", "x", "p">>) THEN TRUE
     ELSE IF FalsyValue(Member(decoded.val, <<"e", "x", "p">>)) THEN TRUE
     ELSE ExpiredAt(ToNumber(Member(decoded.val, <<"e", "x", "p">>)), nowMs)

\* base64url without padding, as the tests' createMockJWT writes it.
Base64Url(s) ==
  SelectSeq(ReplaceAll(ReplaceAll(Btoa(s), "+", "-"), "/", "_"), LAMBDA c : c # "=")

JwtHeader ==
  JObj(<< [k |-> <<"a", "l", "g">>, v |-> JStr(<<"H", "S", "2", "5", "6">>)],
          [k |-> <<"t", "y", "p">>, v |-> JStr(<<"J", "W", "T">>)] >>)

\* The token of the given payload text: header.payload.signature.
JwtOfText(text) ==
  Base64Url(JSONStringify(JwtHeader)) \o <<".">> \o Base64Url(text)
  \o <<".", "s", "i", "g", "n", "a", "t", "u", "r", "e">>

ExpKey == <<"e", "x", "p">>

\* createMockJWT(exp) of the tests: the payload {exp} or, for null, {}.
createMockJWT(exp) ==
  JwtOfText(JSONStringify(JObj(IF exp.has THEN <<[k |-> ExpKey, v |-> JNum(exp.val)]>>
                                         ELSE <<>>)))

NoExp == [has |-> FALSE, val |-> 0]

Exp(n) == [has |-> TRUE, val |-> n]

OpaqueToken == <<"n", "e", "w", "_", "a", "c", "c", "e", "s", "s", "_", "1", "2", "3">>

\* A token by its description: [kind, exp].
TokenString(d) ==
  CASE d.kind = "jwt" -> createMockJWT(Exp(d.exp))
    [] d.kind = "no_exp" -> createMockJWT(NoExp)
    [] d.kind = "two_parts" -> <<"i", "n", "v", "a", "l", "i", "d", ".", "t", "o", "k", "e", "n">>
    [] d.kind = "opaque" -> OpaqueToken
    [] d.kind = "empty_payload" -> <<"a", ".", ".", "b">>
    [] d.kind = "bad_base64" -> <<"a", ".", "!", "!", "!", "!", ".", "b">>
    [] d.kind = "one_mod_four" -> <<"a", ".", "e", "y", "J", "9", "A", ".", "b">>
    [] d.kind = "not_json" -> JwtOfText(<<"h", "i">>)
    [] d.kind = "json_null" -> JwtOfText(<<"n", "u", "l", "l">>)
    [] d.kind = "exp_null" ->
         JwtOfText(JSONStringify(JObj(<<[k |-> ExpKey, v |-> JNull]>>)))
    [] d.kind = "exp_digits" ->
         JwtOfText(JSONStringify(JObj(<<[k |-> ExpKey, v |-> JStr(NumToStr(d.exp))]>>)))
    [] d.kind = "exp_word" ->
         JwtOfText(JSONStringify(JObj(<<[k |-> ExpKey, v |-> JStr(<<"a", "b", "c">>)]>>)))

Token(kind, exp) == [kind |-> kind, exp |-> exp]

----------------------------------------------------------------------------
(* The state of the model                                                  *)

VARIABLES
  whNow,      \* webhooks: Date.now(), in milliseconds
  whTicks,    \* webhooks: how often the clock has advanced
  whHeader,   \* webhooks: the signature header in hand (Undefined: none)
  whGen,      \* webhooks: how the header in hand was made
  whCall,     \* webhooks: the last constructEvent call, its inputs and result
  auNow,      \* auth: Date.now(), in milliseconds
  auTicks,    \* auth: how often the clock has advanced
  auCheck,    \* auth: the last isTokenExpired call, its input and result
  auTokens,   \* auth: RefreshableAuthProvider.tokens, the one token slot
  auCall,     \* auth: each caller's getAccessToken call
  auStarted,  \* auth: how many getAccessToken calls have started
  auIssued,   \* auth: how many token pairs the server has issued
  htConfig,   \* http: the maxRetries option the HttpClient was constructed with
  htHeaders,  \* http: config.headers, the headers the HttpClient was constructed with
  htCall,     \* http: each request() call: its place, attempt counter and log
  oaPoll,     \* oauth: the pollForToken call: its place, interval and log
  oaRefresh,  \* oauth: the refreshAccessToken call: its request and outcome
  oaShot,     \* oauth: the initiateDeviceLogin or exchangeCodeForTokens call
  yoto,       \* client: what new Yoto(config) was given and what it constructed
  timers      \* the timeout timers that are pending and the controllers aborted

whVars == <<whNow, whTicks, whHeader, whGen, whCall>>

auVars == <<auNow, auTicks, auCheck, auTokens, auCall, auStarted, auIssued>>

htVars == <<htConfig, htHeaders, htCall>>

oaVars == <<oaPoll, oaRefresh, oaShot>>

yoVars == <<yoto>>

vars == <<whNow, whTicks, whHeader, whGen, whCall,
          auNow, auTicks, auCheck, auTokens, auCall, auStarted, auIssued,
          htConfig, htHeaders, htCall, oaPoll, oaRefresh, oaShot, yoto, timers>>

\* What the actions of one component leave alone.
NotWh == <<auVars, htVars, oaVars, yoVars, timers>>

NotAu == <<whVars, htVars, oaVars, yoVars, timers>>

NotHt == <<whVars, auVars, oaVars, yoVars>>

NotOa == <<whVars, auVars, htVars, yoVars>>

----------------------------------------------------------------------------
(* Webhooks: the calls of constructEvent and generateTestHeaderString      *)

\* How often the clock may advance.
MaxTicks == 2

WhEpochMs == 1000000

\* The clock advances by half a second or by five minutes.
WhClockSteps == {500, 300000}

EventA ==
  JObj(<< [k |-> <<"i", "d">>, v |-> JStr(<<"e", "1">>)],
          [k |-> <<"t", "y", "p", "e">>, v |-> JStr(<<"c">>)],
          [k |-> <<"d", "a", "t", "a">>, v |-> JObj(<<>>)] >>)

EventB ==
  JObj(<< [k |-> <<"i", "d">>, v |-> JStr(<<"e", "2">>)],
          [k |-> <<"n">>, v |-> JNum(7)] >>)

NotJSON == <<"h", "i">>

\* The raw payloads: two serialized events and a string that is not JSON.
WhPayloadStrings == {JSONStringify(EventA), JSONStringify(EventB), NotJSON}

WhGenPayloads == {StringPayload(s) : s \in WhPayloadStrings} \cup {ObjectPayload(EventA)}

WhSecrets == {<<"k", "1">>, <<"k", "2">>}

WhOptions == {NoOptions, ToleranceOption(0), ToleranceOption(600)}

\* The timestamp option of generateTestHeaderString, relative to now: absent,
\* 0, at and past the default tolerance, and far in the future.
WhTimestampOffsets == {-301, -300, 100000}

WhTimestamps(nowMs) ==
  {NoTimestamp, TimestampOption(0)}
  \cup {TimestampOption((nowMs \div 1000) + d) : d \in WhTimestampOffsets}

\* The characters one character of a signature is altered to: a hex digit,
\* a letter that is no hex digit, a character outside ASCII, a separator.
WhAlterChars == {"0", "g", "U+00E9", ","}

WhCraftNames ==
  {"missing", "empty", "only_t", "only_v1", "empty_t", "empty_v1", "no_equals",
   "swapped", "nan_t", "digits_then_letters", "extra_part", "extra_equals"}

\* Headers written by hand for a payload and a secret at the time nowS.
CraftHeader(name, payload, secret, nowS) ==
  LET ts == NumToStr(nowS)
      abc == <<"a", "b", "c">>
      T(x) == <<"t", "=">> \o x
      V(x) == <<"v", "1", "=">> \o x
      sig(x) == computeSignature(x, payload, secret)
  IN CASE name = "missing" -> Undefined
       [] name = "empty" -> <<>>
       [] name = "only_t" -> T(ts)
       [] name = "only_v1" -> V(sig(ts))
       [] name = "empty_t" -> T(<<>>) \o <<",">> \o V(sig(<<>>))
       [] name = "empty_v1" -> T(ts) \o <<",">> \o V(<<>>)
       [] name = "no_equals" -> <<"t", ",", "v", "1">>
       [] name = "swapped" -> V(sig(ts)) \o <<",">> \o T(ts)
       [] name = "nan_t" -> T(abc) \o <<",">> \o V(sig(abc))
       [] name = "digits_then_letters" -> T(ts \o abc) \o <<",">> \o V(sig(ts \o abc))
       [] name = "extra_part" -> T(ts) \o <<",">> \o V(sig(ts)) \o <<",", "v", "0", "=", "z">>
       [] name = "extra_equals" -> T(ts) \o <<",">> \o V(sig(ts)) \o <<"=", "z">>

NoGen ==
  [kind |-> "none", original |-> StringPayload(<<>>), payload |-> <<>>,
   secret |-> <<>>, timestamp |-> NoTimestamp, genNow |-> 0, pos |-> 0, craft |-> ""]

NoCall ==
  [called |-> FALSE, payload |-> <<>>, signature |-> Undefined, secret |-> <<>>,
   options |-> NoOptions, now |-> 0, result |-> Thrown("", ""), later |-> <<>>]

WhInit ==
  /\ whNow = WhEpochMs
  /\ whTicks = 0
  /\ whHeader = Undefined
  /\ whGen = NoGen
  /\ whCall = NoCall

\* Time passes between the making of a header and its verification.
WhTick ==
  /\ whGen.kind # "none"
  /\ ~whCall.called
  /\ whTicks < MaxTicks
  /\ \E d \in WhClockSteps : whNow' = whNow + d
  /\ whTicks' = whTicks + 1
  /\ UNCHANGED <<whHeader, whGen, whCall>>
  /\ UNCHANGED NotWh

\* A caller makes a header with generateTestHeaderString.
GenerateTestHeaderString ==
  /\ whGen.kind = "none"
  /\ \E payload \in WhGenPayloads, secret \in WhSecrets, timestamp \in WhTimestamps(whNow) :
       /\ whHeader' = generateTestHeaderString(payload, secret, timestamp, whNow)
       /\ whGen' = [kind |-> "generated", original |-> payload,
                    payload |-> payloadString(payload),
                    secret |-> secret, timestamp |-> timestamp, genNow |-> whNow,
                    pos |-> 0, craft |-> ""]
  /\ UNCHANGED <<whNow, whTicks, whCall>>
  /\ UNCHANGED NotWh

\* One character of the v1 value of a header generated with the default
\* timestamp is replaced by another.
AlterSignature ==
  /\ whGen.kind = "generated"
  /\ ~whGen.timestamp.has
  /\ whTicks = 0
  /\ ~whCall.called
  /\ \E i \in 1..DigestHexLen, c \in WhAlterChars :
       LET at == Len(whHeader) - DigestHexLen + i
       IN /\ whHeader[at] # c
          /\ whHeader' = [whHeader EXCEPT ![at] = c]
          /\ whGen' = [whGen EXCEPT !.kind = "altered", !.pos = i]
  /\ UNCHANGED <<whNow, whTicks, whCall>>
  /\ UNCHANGED NotWh

\* A header is written by hand.
WriteHeader ==
  /\ whGen.kind = "none"
  /\ \E name \in WhCraftNames, payload \in WhPayloadStrings, secret \in WhSecrets :
       /\ whHeader' = CraftHeader(name, payload, secret, whNow \div 1000)
       /\ whGen' = [NoGen EXCEPT !.kind = "crafted", !.payload = payload,
                                 !.original = StringPayload(payload),
                                 !.secret = secret, !.genNow = whNow, !.craft = name]
  /\ UNCHANGED <<whNow, whTicks, whCall>>
  /\ UNCHANGED NotWh

\* A caller verifies a payload against the header in hand.
ConstructEvent ==
  /\ whGen.kind # "none"
  /\ ~whCall.called
  /\ \E payload \in WhPayloadStrings, secret \in WhSecrets, options \in WhOptions :
       whCall' = [called |-> TRUE, payload |-> payload, signature |-> whHeader,
                  secret |-> secret, options |-> options, now |-> whNow,
                  result |-> constructEvent(payload, whHeader, secret, options, whNow),
                  later |-> <<>>]
  /\ UNCHANGED <<whNow, whTicks, whHeader, whGen>>
  /\ UNCHANGED NotWh

WhNext == WhTick \/ GenerateTestHeaderString \/ AlterSignature \/ WriteHeader \/ ConstructEvent

\* The calls of constructEvent a run makes after its first.
MaxReplays == 1

\* Time passes between two verifications.
WhTickBetweenCalls ==
  /\ whCall.called
  /\ Len(whCall.later) < MaxReplays
  /\ whTicks < MaxTicks
  /\ \E d \in WhClockSteps : whNow' = whNow + d
  /\ whTicks' = whTicks + 1
  /\ UNCHANGED <<whHeader, whGen, whCall>>
  /\ UNCHANGED NotWh

\* A verification that refuses a header it has accepted before.
ConstructEventAgain_RejectsReplays ==
  /\ whCall.called
  /\ Len(whCall.later) < MaxReplays
  /\ \E payload \in {whCall.payload}, secret \in WhSecrets :
       LET seen == {whCall.result} \cup {whCall.later[i].result : i \in 1..Len(whCall.later)}
           result == constructEvent(payload, whHeader, secret, whCall.options, whNow)
       IN whCall' = [whCall EXCEPT !.later =
                       Append(@, [payload |-> payload, signature |-> whHeader,
                                  secret |-> secret, options |-> whCall.options,
                                  now |-> whNow,
                                  result |-> IF result \in seen /\ result.kind = "event"
                                             THEN Thrown("Error", "Signature already used")
                                             ELSE result])]
  /\ UNCHANGED <<whNow, whTicks, whHeader, whGen>>
  /\ UNCHANGED NotWh

\* constructEvent is called again with the header in hand and the payload and
\* options of the first call: under the same secret or under another.
ConstructEventAgain ==
  /\ whCall.called
  /\ Len(whCall.later) < MaxReplays
  /\ \E payload \in {whCall.payload}, secret \in WhSecrets :
       whCall' = [whCall EXCEPT !.later =
                    Append(@, [payload |-> payload, signature |-> whHeader,
                               secret |-> secret, options |-> whCall.options,
                               now |-> whNow,
                               result |-> constructEvent(payload, whHeader, secret,
                                                         whCall.options, whNow)])]
  /\ UNCHANGED <<whNow, whTicks, whHeader, whGen>>
  /\ UNCHANGED NotWh

WhReplayNext ==
  GenerateTestHeaderString \/ ConstructEvent \/ WhTickBetweenCalls \/ ConstructEventAgain

----------------------------------------------------------------------------
(* Auth: isTokenExpired calls and the RefreshableAuthProvider              *)
(* (src/src/resources/family.ts, src/unnamed/part_003)                     *)

AuEpochMs == 1000000

\* The clock advances by half a second or by half a minute.
AuClockSteps == {500, 30000}

\* The tokens isTokenExpired is asked about: exp long past, just inside, at
\* and just outside the 30 s buffer of the epoch, far ahead; and tokens
\* without a readable numeric exp.
AuCheckTokens ==
  {Token("jwt", e) : e \in {0, 900, 1029, 1030, 1031, 1060, 1061, 5000}}
  \cup {Token(k, 5000) :
          k \in {"no_exp", "two_parts", "opaque", "empty_payload", "bad_base64",
                 "one_mod_four", "not_json", "json_null", "exp_null", "exp_digits",
                 "exp_word"}}

NoCheck == [called |-> FALSE, token |-> Token("opaque", 0), now |-> 0, result |-> FALSE]

AuCallers == {"a", "b"}

\* How many getAccessToken calls are made in all.
MaxTokenCalls == 3

RefreshToken(n) == <<"r">> \o NumToStr(n)

TokenPair(access, refresh) == [access_token |-> access, refresh_token |-> refresh]

\* The token pairs a provider is constructed with: an access token that is
\* fresh, one at the edge of the buffer, one that is no JWT.
AuInitialTokens ==
  {TokenPair(TokenString(d), RefreshToken(0)) :
     d \in {Token("jwt", 5000), Token("jwt", 1030), Token("opaque", 0)}}

\* No response on its way to a caller.
NoResponse == [kind |-> "", body |-> [access_token |-> Undefined, refresh_token |-> Undefined], n |-> 0]

IdleCall ==
  [pc |-> "idle", held |-> Undefined, checkNow |-> 0, sent |-> Undefined,
   refreshed |-> FALSE, response |-> Undefined, result |-> Undefined, retNow |-> 0,
   error |-> "", inflight |-> NoResponse]

\* What the token endpoint may answer to a refresh at the time nowMs: a 2xx
\* with a pair whose access token expires in an hour or in ten seconds and
\* whose refresh token is new or absent; a non-2xx; a failed network call.
RefreshResponses(nowMs, issued) ==
  {[kind |-> "2xx", body |-> TokenPair(a, r)] :
     a \in {TokenString(Token("jwt", (nowMs \div 1000) + 3600)),
            TokenString(Token("jwt", (nowMs \div 1000) + 10))},
     r \in {RefreshToken(issued + 1), Undefined}}
  \cup {[kind |-> k, body |-> TokenPair(Undefined, Undefined)] :
          k \in {"non2xx", "network"}}

\* refreshAccessToken: the pair of a 2xx response as it is, a
\* YotoAuthenticationError for a non-2xx, a YotoConnectionError for anything
\* else that is thrown.
refreshAccessToken(response) ==
  CASE response.kind = "2xx" -> [ok |-> TRUE, tokens |-> response.body, error |-> ""]
    [] response.kind = "non2xx" ->
         [ok |-> FALSE, tokens |-> response.body, error |-> "YotoAuthenticationError"]
    [] OTHER -> [ok |-> FALSE, tokens |-> response.body, error |-> "YotoConnectionError"]

NeedsRefresh_Never(tokens, nowMs) == FALSE

NeedsRefresh_Always(tokens, nowMs) == TRUE

\* The condition of getAccessToken: isTokenExpired(this.tokens.access_token).
NeedsRefresh(tokens, nowMs) == isTokenExpired(tokens.access_token, nowMs)

AuOff ==
  /\ auNow = AuEpochMs
  /\ auTicks = 0
  /\ auCheck = NoCheck
  /\ auTokens = TokenPair(TokenString(Token("jwt", 5000)), RefreshToken(0))
  /\ auCall = [c \in AuCallers |-> IdleCall]
  /\ auStarted = 0
  /\ auIssued = 0

\* Time passes.
AuTick ==
  /\ auTicks < MaxTicks
  /\ \E d \in AuClockSteps : auNow' = auNow + d
  /\ auTicks' = auTicks + 1
  /\ UNCHANGED <<auCheck, auTokens, auCall, auStarted, auIssued>>
  /\ UNCHANGED NotAu

\* isTokenExpired is called on a token.
IsTokenExpired ==
  /\ \E d \in AuCheckTokens :
       auCheck' = [called |-> TRUE, token |-> d, now |-> auNow,
                   result |-> isTokenExpired(TokenString(d), auNow)]
  /\ UNCHANGED <<auNow, auTicks, auTokens, auCall, auStarted, auIssued>>
  /\ UNCHANGED NotAu

ExpiryInit ==
  /\ auNow = AuEpochMs
  /\ auTicks = 0
  /\ auCheck = NoCheck
  /\ auTokens = TokenPair(TokenString(Token("jwt", 5000)), RefreshToken(0))
  /\ auCall = [c \in AuCallers |-> IdleCall]
  /\ auStarted = 0
  /\ auIssued = 0

ExpiryNext == AuTick \/ IsTokenExpired

ProviderInit ==
  /\ auNow = AuEpochMs
  /\ auTicks = 0
  /\ auCheck = NoCheck
  /\ auTokens \in AuInitialTokens
  /\ auCall = [c \in AuCallers |-> IdleCall]
  /\ auStarted = 0
  /\ auIssued = 0

\* getAccessToken up to its await: the held token is returned when it is not
\* expired, else the refresh request is sent with the held refresh token.
GetAccessToken(c) ==
  /\ auCall[c].pc \in {"idle", "returned", "threw"}
  /\ auStarted < MaxTokenCalls
  /\ auStarted' = auStarted + 1
  /\ auCall' =
       [auCall EXCEPT ![c] =
          IF NeedsRefresh(auTokens, auNow)
          THEN [IdleCall EXCEPT !.pc = "refreshing", !.held = auTokens.access_token,
                                !.checkNow = auNow, !.sent = auTokens.refresh_token]
          ELSE [IdleCall EXCEPT !.pc = "returned", !.held = auTokens.access_token,
                                !.checkNow = auNow, !.result = auTokens.access_token,
                                !.retNow = auNow]]
  /\ UNCHANGED <<auNow, auTicks, auCheck, auTokens, auIssued>>
  /\ UNCHANGED NotAu

RefreshEnds_ClearsSlotOnFailure(c) ==
  /\ auCall[c].pc = "refreshing"
  /\ \E response \in RefreshResponses(auNow, auIssued) :
       LET r == refreshAccessToken(response)
       IN IF r.ok
          THEN /\ auTokens' = r.tokens
               /\ auIssued' = auIssued + 1
               /\ auCall' = [auCall EXCEPT ![c].pc = "returned", ![c].refreshed = TRUE,
                                           ![c].response = r.tokens.access_token,
                                           ![c].result = r.tokens.access_token,
                                           ![c].retNow = auNow]
          ELSE /\ auCall' = [auCall EXCEPT ![c].pc = "threw", ![c].error = r.error]
               /\ auTokens' = r.tokens
               /\ UNCHANGED auIssued
  /\ UNCHANGED <<auNow, auTicks, auCheck, auStarted>>
  /\ UNCHANGED NotAu

RefreshEnds_KeepsSlot(c) ==
  /\ auCall[c].pc = "refreshing"
  /\ \E response \in RefreshResponses(auNow, auIssued) :
       LET r == refreshAccessToken(response)
       IN IF r.ok
          THEN /\ auIssued' = auIssued + 1
               /\ auCall' = [auCall EXCEPT ![c].pc = "returned", ![c].refreshed = TRUE,
                                           ![c].response = r.tokens.access_token,
                                           ![c].result = r.tokens.access_token,
                                           ![c].retNow = auNow]
               /\ UNCHANGED auTokens
          ELSE /\ auCall' = [auCall EXCEPT ![c].pc = "threw", ![c].error = r.error]
               /\ UNCHANGED <<auTokens, auIssued>>
  /\ UNCHANGED <<auNow, auTicks, auCheck, auStarted>>
  /\ UNCHANGED NotAu

\* The refresh of caller c ends: on success the slot takes the new pair and
\* the call returns its access token; on failure the call throws.
RefreshEnds(c) ==
  /\ auCall[c].pc = "refreshing"
  /\ \E response \in RefreshResponses(auNow, auIssued) :
       LET r == refreshAccessToken(response)
       IN IF r.ok
          THEN /\ auTokens' = r.tokens
               /\ auIssued' = auIssued + 1
               /\ auCall' = [auCall EXCEPT ![c].pc = "returned", ![c].refreshed = TRUE,
                                           ![c].response = r.tokens.access_token,
                                           ![c].result = r.tokens.access_token,
                                           ![c].retNow = auNow]
          ELSE /\ auCall' = [auCall EXCEPT ![c].pc = "threw", ![c].error = r.error]
               /\ UNCHANGED <<auTokens, auIssued>>
  /\ UNCHANGED <<auNow, auTicks, auCheck, auStarted>>
  /\ UNCHANGED NotAu

\* The token endpoint answers the refresh request of caller c: the response,
\* the n-th the server has issued, is on its way.
ServerAnswers(c) ==
  /\ auCall[c].pc = "refreshing"
  /\ \E response \in RefreshResponses(auNow, auIssued) :
       /\ auIssued' = IF response.kind = "2xx" THEN auIssued + 1 ELSE auIssued
       /\ auCall' = [auCall EXCEPT
                       ![c].pc = "answered",
                       ![c].inflight = [kind |-> response.kind, body |-> response.body,
                                        n |-> auIssued']]
  /\ UNCHANGED <<auNow, auTicks, auCheck, auTokens, auStarted>>
  /\ UNCHANGED NotAu

\* The response reaches caller c: refreshAccessToken resolves and the slot
\* takes the pair, or it rejects and the call throws.
ResponseArrives(c) ==
  /\ auCall[c].pc = "answered"
  /\ LET r == refreshAccessToken([kind |-> auCall[c].inflight.kind,
                                  body |-> auCall[c].inflight.body])
     IN IF r.ok
        THEN /\ auTokens' = r.tokens
             /\ auCall' = [auCall EXCEPT ![c].pc = "returned", ![c].refreshed = TRUE,
                                         ![c].response = r.tokens.access_token,
                                         ![c].result = r.tokens.access_token,
                                         ![c].retNow = auNow]
        ELSE /\ auCall' = [auCall EXCEPT ![c].pc = "threw", ![c].error = r.error]
             /\ UNCHANGED auTokens
  /\ UNCHANGED <<auNow, auTicks, auCheck, auStarted, auIssued>>
  /\ UNCHANGED NotAu

\* Half a second passes.
ProviderTick ==
  /\ auTicks < MaxTicks
  /\ auNow' = auNow + 500
  /\ auTicks' = auTicks + 1
  /\ UNCHANGED <<auCheck, auTokens, auCall, auStarted, auIssued>>
  /\ UNCHANGED NotAu

ProviderNext ==
  \/ ProviderTick
  \/ \E c \in AuCallers : GetAccessToken(c)
  \/ \E c \in AuCallers : RefreshEnds(c)

\* The provider with the answer of the server and its arrival as two steps.
ProviderNetworkNext ==
  \/ ProviderTick
  \/ \E c \in AuCallers : GetAccessToken(c)
  \/ \E c \in AuCallers : ServerAnswers(c)
  \/ \E c \in AuCallers : ResponseArrives(c)

----------------------------------------------------------------------------
(* The HTTP request pipeline: src/src/http-client.ts                       *)

DEFAULT_MAX_RETRIES == 3

\* The largest maxRetries an HttpClient is configured with.
MaxConfiguredRetries == 2

NoMaxRetries == [has |-> FALSE, val |-> 0]

MaxRetriesOption(n) == [has |-> TRUE, val |-> n]

HtConfigs == {NoMaxRetries} \cup {MaxRetriesOption(n) : n \in 0..MaxConfiguredRetries}

\* The constructor: this.maxRetries = config.maxRetries || DEFAULT_MAX_RETRIES,
\* so that a configured 0 becomes the default.
maxRetries(config) ==
  IF config.has /\ config.val # 0 THEN config.val ELSE DEFAULT_MAX_RETRIES

HtCalls == {"c1"}

\* What fetch may do in one attempt, by name.
HtResponseTags ==
  {"200", "204", "401", "401nojson", "404", "429", "429ra2", "429ra0", "429date", "500",
   "network", "abort"}

\* fetch resolves with a response (its status, its Retry-After header, whether
\* its body is JSON) or rejects (a failed network call, an abort by the
\* timeout).
HtResponse(tag) ==
  CASE tag = "200" -> [kind |-> "response", status |-> 200, retryAfter |-> Undefined, json |-> TRUE]
    [] tag = "204" -> [kind |-> "response", status |-> 204, retryAfter |-> Undefined, json |-> FALSE]
    [] tag = "401" -> [kind |-> "response", status |-> 401, retryAfter |-> Undefined, json |-> TRUE]
    [] tag = "401nojson" -> [kind |-> "response", status |-> 401, retryAfter |-> Undefined, json |-> FALSE]
    [] tag = "404" -> [kind |-> "response", status |-> 404, retryAfter |-> Undefined, json |-> TRUE]
    [] tag = "429" -> [kind |-> "response", status |-> 429, retryAfter |-> Undefined, json |-> TRUE]
    [] tag = "429date" -> [kind |-> "response", status |-> 429, retryAfter |-> <<"W", "e", "d">>, json |-> TRUE]
    [] tag = "429ra2" -> [kind |-> "response", status |-> 429, retryAfter |-> <<"2">>, json |-> TRUE]
    [] tag = "429ra0" -> [kind |-> "response", status |-> 429, retryAfter |-> <<"0">>, json |-> FALSE]
    [] tag = "500" -> [kind |-> "response", status |-> 500, retryAfter |-> Undefined, json |-> FALSE]
    [] tag = "network" -> [kind |-> "TypeError", status |-> 0, retryAfter |-> Undefined, json |-> FALSE]
    [] tag = "abort" -> [kind |-> "AbortError", status |-> 0, retryAfter |-> Undefined, json |-> FALSE]

\* What authProvider.getAccessToken may do: return a token, or throw an
\* authentication error, a connection error or some other error.
HtTokenOutcomes == {"ok", "YotoAuthenticationError", "YotoConnectionError", "Error"}

\* Math.random() * 1000, at the ends of its range.
HtJitters == {0, 999}

NoRetryAfter == [has |-> FALSE, num |-> NaN]

Err(class, status, retryAfter) == [class |-> class, status |-> status, retryAfter |-> retryAfter]

NoError == Err("", 0, NoRetryAfter)

\* handleErrorResponse: the error a non-2xx response is thrown as.
handleErrorResponse_RateLimitAsAPI(response) ==
  IF response.status = 401 THEN Err("YotoAuthenticationError", 401, NoRetryAfter)
  ELSE Err("YotoAPIError", response.status, NoRetryAfter)

handleErrorResponse(response) ==
  IF response.status = 401 THEN Err("YotoAuthenticationError", 401, NoRetryAfter)
  ELSE IF response.status = 429
       THEN Err("YotoRateLimitError", 429,
                IF Falsy(response.retryAfter) THEN NoRetryAfter
                ELSE [has |-> TRUE, num |-> ParseInt(response.retryAfter)])
  ELSE Err("YotoAPIError", response.status, NoRetryAfter)

Min(a, b) == IF a < b THEN a ELSE b

\* calculateRetryDelay: a retryAfter that is defined, not NaN and not 0 gives
\* that many seconds, anything else the capped exponential delay with jitter.
calculateRetryDelay(attempt, retryAfter, jitter) ==
  IF retryAfter.has /\ ~retryAfter.num.nan /\ retryAfter.num.val # 0
  THEN retryAfter.num.val * 1000
  ELSE Min(1000 * (2 ^ attempt) + jitter, 10000)

NotRetried_OnlyAuthentication(error) == error.class = "YotoAuthenticationError"

NotRetried_OnlyConnection(error) == error.class = "YotoConnectionError"

NotRetried_NorAborts(error) ==
  error.class \in {"YotoAuthenticationError", "YotoConnectionError", "AbortError"}

\* The errors the catch block rethrows at once.
NotRetried(error) ==
  error.class \in {"YotoAuthenticationError", "YotoConnectionError"}

Event(e, r) == [e |-> e, r |-> r]

AuthorizationName == <<"A", "u", "t", "h", "o", "r", "i", "z", "a", "t", "i", "o", "n">>

ContentTypeName == <<"C", "o", "n", "t", "e", "n", "t", "-", "T", "y", "p", "e">>

UserAgentName == <<"U", "s", "e", "r", "-", "A", "g", "e", "n", "t">>

\* `Bearer ${accessToken}`
Bearer(accessToken) == <<"B", "e", "a", "r", "e", "r", " ">> \o accessToken

\* headers[name], undefined when there is no such header.
Header(headers, name) ==
  IF HasMember(JObj(headers), name) THEN Member(JObj(headers), name) ELSE Undefined

\* Object.assign(target, source): the entries of source in their order.
RECURSIVE Assign(_, _)
Assign(target, source) ==
  IF source = <<>> THEN target
  ELSE Assign(SetKey(target, Head(source).k, Head(source).v), Tail(source))

\* The loops of the binary branch: every entry of source but the one called name.
RECURSIVE AssignExcept(_, _, _)
AssignExcept(target, source, name) ==
  IF source = <<>> THEN target
  ELSE AssignExcept(IF Head(source).k = name THEN target
                    ELSE SetKey(target, Head(source).k, Head(source).v),
                    Tail(source), name)

\* config.headers: none, or an Authorization header of the caller's own.
OwnCredential == <<"B", "e", "a", "r", "e", "r", " ", "o", "w", "n">>

NoHeaders == <<>>

HtConfigHeaders == {NoHeaders, << [k |-> AuthorizationName, v |-> OwnCredential] >>}

\* The constructor: this.headers, the defaults with config.headers over them.
clientHeaders(configHeaders) ==
  Assign(<< [k |-> ContentTypeName, v |-> <<"a", "p", "p", "l", "i", "c", "a", "t", "i", "o", "n", "/", "j", "s", "o", "n">>],
            [k |-> UserAgentName, v |-> <<"y", "o", "t", "o", "-", "j", "s">>] >>, configHeaders)

\* The options of a request() call that bear on its headers: options.headers
\* and whether options.body is a Buffer or a Blob.
PlainOptions == [headers |-> NoHeaders, binary |-> FALSE]

HtRequestOptions ==
  {PlainOptions,
   [headers |-> << [k |-> ContentTypeName, v |-> <<"a", "u", "d", "i", "o", "/", "m", "p", "e", "g">>] >>, binary |-> TRUE],
   [headers |-> << [k |-> AuthorizationName, v |-> OwnCredential] >>, binary |-> FALSE],
   [headers |-> << [k |-> AuthorizationName, v |-> OwnCredential] >>, binary |-> TRUE]}

\* The headers of one attempt: Authorization first, then this.headers and
\* options.headers over it; a binary body takes Content-Type from the options
\* only.
requestHeaders(accessToken, headers, options) ==
  LET auth == << [k |-> AuthorizationName, v |-> Bearer(accessToken)] >>
  IN IF options.binary
     THEN LET typed == IF Falsy(Header(options.headers, ContentTypeName)) THEN auth
                       ELSE SetKey(auth, ContentTypeName,
                                   Header(options.headers, ContentTypeName))
          IN AssignExcept(AssignExcept(typed, headers, ContentTypeName),
                          options.headers, ContentTypeName)
     ELSE Assign(Assign(auth, headers), options.headers)

\* The token the auth provider returns to the n-th getAccessToken call of
\* request() call c that succeeds: a different one each time.
IssuedToken(c, n) == <<"t", c, "-">> \o NumToStr(n)

\* new AbortController(): one that no other call has.
NewAbortController_Shared(owner, n) == <<"shared", 0>>

NewAbortController(owner, n) == <<owner, n>>

NoSignal == <<"", 0>>

NoTimers == [pending |-> {}, aborted |-> {}]

\* setTimeout(() => controller.abort(), timeout), clearTimeout(timeoutId) and
\* the timer's callback.
Started(tm, k) == [tm EXCEPT !.pending = @ \cup {k}]

Cleared(tm, k) == [tm EXCEPT !.pending = @ \ {k}]

Fired(tm, k) == [pending |-> tm.pending \ {k}, aborted |-> tm.aborted \cup {k}]

\* net: the network calls begun, each with the token the provider returned in
\* its attempt, the Authorization header it carries and its signal.
IdleRequest ==
  [pc |-> "idle", attempt |-> 0, log |-> <<>>, lastError |-> NoError, delay |-> 0,
   error |-> NoError, options |-> PlainOptions, signal |-> NoSignal, net |-> <<>>,
   duringSleep |-> FALSE]

\* The head of the for loop: another attempt while attempt <= maxRetries,
\* else the throw after the loop.
LoopHead(call, attempt) ==
  IF attempt <= maxRetries(htConfig)
  THEN [call EXCEPT !.pc = "token", !.attempt = attempt]
  ELSE [call EXCEPT !.pc = "threw", !.attempt = attempt,
                    !.error = IF call.lastError = NoError
                              THEN Err("YotoConnectionError", 0, NoRetryAfter)
                              ELSE call.lastError]

Catch_ThrowsEarlierError(call, error, jitter) ==
  IF NotRetried(error)
  THEN [call EXCEPT !.pc = "threw", !.lastError = error, !.error = error]
  ELSE IF call.attempt < maxRetries(htConfig)
       THEN [call EXCEPT !.pc = "sleeping",
                         !.lastError = IF call.lastError = NoError THEN error ELSE @,
                         !.delay = calculateRetryDelay(call.attempt,
                                     IF error.class = "YotoRateLimitError"
                                     THEN error.retryAfter ELSE NoRetryAfter, jitter),
                         !.log = Append(call.log, Event("sleep", ""))]
       ELSE [call EXCEPT !.pc = "threw",
                         !.error = IF call.lastError = NoError THEN error ELSE call.lastError]

Catch_SleepsBeforeThrowing(call, error, jitter) ==
  IF NotRetried(error)
  THEN [call EXCEPT !.pc = "threw", !.lastError = error, !.error = error]
  ELSE IF call.attempt < maxRetries(htConfig)
       THEN [call EXCEPT !.pc = "sleeping", !.lastError = error,
                         !.delay = calculateRetryDelay(call.attempt,
                                     IF error.class = "YotoRateLimitError"
                                     THEN error.retryAfter ELSE NoRetryAfter, jitter),
                         !.log = Append(call.log, Event("sleep", ""))]
       ELSE [call EXCEPT !.pc = "threw", !.lastError = error, !.error = error,
                         !.log = Append(call.log, Event("sleep", ""))]

Catch_RetriesAtOnce(call, error, jitter) ==
  IF NotRetried(error)
  THEN [call EXCEPT !.pc = "threw", !.lastError = error, !.error = error]
  ELSE IF call.attempt < maxRetries(htConfig)
       THEN [call EXCEPT !.pc = "token", !.lastError = error, !.attempt = @ + 1]
       ELSE [call EXCEPT !.pc = "threw", !.lastError = error, !.error = error]

\* The catch block of an attempt.
Catch(call, error, jitter) ==
  IF NotRetried(error)
  THEN [call EXCEPT !.pc = "threw", !.lastError = error, !.error = error]
  ELSE IF call.attempt < maxRetries(htConfig)
       THEN [call EXCEPT !.pc = "sleeping", !.lastError = error,
                         !.delay = calculateRetryDelay(call.attempt,
                                     IF error.class = "YotoRateLimitError"
                                     THEN error.retryAfter ELSE NoRetryAfter, jitter),
                         !.log = Append(call.log, Event("sleep", ""))]
       ELSE [call EXCEPT !.pc = "threw", !.lastError = error, !.error = error]

\* The body of the loop begins: a controller of the attempt's own and its
\* timeout timer, before the token is asked for.
StartAttempt(c, call, attempt) ==
  LET next == LoopHead(call, attempt)
  IN IF next.pc = "token"
     THEN [next EXCEPT !.signal = NewAbortController(c, attempt)]
     ELSE next

TimerOfAttempt(c, call, attempt) ==
  IF StartAttempt(c, call, attempt).pc = "token"
  THEN Started(timers, StartAttempt(c, call, attempt).signal)
  ELSE timers

HtOff ==
  /\ htConfig = NoMaxRetries
  /\ htHeaders = NoHeaders
  /\ htCall = [c \in HtCalls |-> IdleRequest]

HtInit ==
  /\ htConfig \in HtConfigs
  /\ htHeaders = NoHeaders
  /\ htCall = [c \in HtCalls |-> IdleRequest]
  /\ timers = NoTimers

Request_WaitsForSleepers(c) ==
  /\ htCall[c].pc = "idle"
  /\ \A d \in DOMAIN htCall \ {c} : htCall[d].pc # "sleeping"
  /\ htCall' = [htCall EXCEPT ![c] = StartAttempt(c, htCall[c], 0)]
  /\ timers' = TimerOfAttempt(c, htCall[c], 0)
  /\ UNCHANGED <<htConfig, htHeaders>>
  /\ UNCHANGED NotHt

\* request() is called.
Request(c) ==
  /\ htCall[c].pc = "idle"
  /\ htCall' = [htCall EXCEPT ![c] =
                  [StartAttempt(c, htCall[c], 0) EXCEPT
                     !.duringSleep = \E d \in DOMAIN htCall \ {c} :
                                       htCall[d].pc = "sleeping"]]
  /\ timers' = TimerOfAttempt(c, htCall[c], 0)
  /\ UNCHANGED <<htConfig, htHeaders>>
  /\ UNCHANGED NotHt

\* The attempt asks the auth provider for a token.
GetToken(c) ==
  /\ htCall[c].pc = "token"
  /\ \E outcome \in HtTokenOutcomes, jitter \in HtJitters :
       LET logged == [htCall[c] EXCEPT !.log = Append(@, Event("token", outcome))]
           accessToken == IssuedToken(c, Len(htCall[c].net))
           headers == requestHeaders(accessToken, clientHeaders(htHeaders),
                                     htCall[c].options)
       IN htCall' = [htCall EXCEPT ![c] =
                       IF outcome = "ok"
                       THEN [logged EXCEPT
                               !.pc = "fetch",
                               !.net = Append(@, [token |-> accessToken,
                                                  authorization |->
                                                    Header(headers, AuthorizationName),
                                                  signal |-> htCall[c].signal])]
                       ELSE Catch(logged, Err(outcome, 0, NoRetryAfter), jitter)]
  /\ UNCHANGED <<htConfig, htHeaders, timers>>
  /\ UNCHANGED NotHt

\* The attempt's network call ends: a 2xx with a JSON body is returned, a 2xx
\* whose body is no JSON throws a SyntaxError, a non-2xx throws the error
\* handleErrorResponse makes of it, a rejected fetch throws what it rejected
\* with.
\* The timeout timer is cleared once fetch has resolved with a response, and
\* only then; a fetch aborted by its timer has had the timer fire, and a
\* signal aborted before the fetch began rejects it at once.
Fetch(c) ==
  /\ htCall[c].pc = "fetch"
  /\ \E tag \in HtResponseTags, jitter \in HtJitters :
       LET response == HtResponse(tag)
           logged == [htCall[c] EXCEPT !.log = Append(@, Event("fetch", tag))]
           ok == response.status \in 200..299
       IN /\ htCall[c].signal \in timers.aborted => tag = "abort"
          /\ tag = "abort" =>
                htCall[c].signal \in timers.pending \cup timers.aborted
          /\ htCall' = [htCall EXCEPT ![c] =
                          IF response.kind # "response"
                          THEN Catch(logged, Err(response.kind, 0, NoRetryAfter), jitter)
                          ELSE IF ~ok
                               THEN Catch(logged, handleErrorResponse(response), jitter)
                          ELSE IF ~response.json
                               THEN Catch(logged, Err("SyntaxError", 0, NoRetryAfter), jitter)
                          ELSE [logged EXCEPT !.pc = "returned"]]
          /\ timers' = IF response.kind = "response" THEN Cleared(timers, htCall[c].signal)
                       ELSE IF tag = "abort" THEN Fired(timers, htCall[c].signal)
                       ELSE timers
  /\ UNCHANGED <<htConfig, htHeaders>>
  /\ UNCHANGED NotHt

\* The sleep ends: attempt++ and the loop goes on.
WakeUp(c) ==
  /\ htCall[c].pc = "sleeping"
  /\ htCall' = [htCall EXCEPT ![c] = StartAttempt(c, htCall[c], htCall[c].attempt + 1)]
  /\ timers' = TimerOfAttempt(c, htCall[c], htCall[c].attempt + 1)
  /\ UNCHANGED <<htConfig, htHeaders>>
  /\ UNCHANGED NotHt

HtNext ==
  \/ \E c \in HtCalls : Request(c)
  \/ \E c \in HtCalls : GetToken(c)
  \/ \E c \in HtCalls : Fetch(c)
  \/ \E c \in HtCalls : WakeUp(c)

----------------------------------------------------------------------------
(* The OAuth helpers: pollForToken and refreshAccessToken of               *)
(* src/unnamed/part_003, from the HTTP answer to what the caller gets      *)

\* The most polls one pollForToken call makes in the model.
MaxPolls == 4

AccessTokenKey == <<"a", "c", "c", "e", "s", "s", "_", "t", "o", "k", "e", "n">>

RefreshTokenKey == <<"r", "e", "f", "r", "e", "s", "h", "_", "t", "o", "k", "e", "n">>

ExpiresInKey == <<"e", "x", "p", "i", "r", "e", "s", "_", "i", "n">>

TokenTypeKey == <<"t", "o", "k", "e", "n", "_", "t", "y", "p", "e">>

ErrorKey == <<"e", "r", "r", "o", "r">>

DeviceCodeKey == <<"d", "e", "v", "i", "c", "e", "_", "c", "o", "d", "e">>

UserCodeKey == <<"u", "s", "e", "r", "_", "c", "o", "d", "e">>

VerificationUriKey == <<"v", "e", "r", "i", "f", "i", "c", "a", "t", "i", "o", "n", "_", "u", "r", "i">>

VerificationUriCompleteKey == <<"v", "e", "r", "i", "f", "i", "c", "a", "t", "i", "o", "n", "_", "u", "r", "i", "_", "c", "o", "m", "p", "l", "e", "t", "e">>

IntervalKey == <<"i", "n", "t", "e", "r", "v", "a", "l">>

ErrorDescriptionKey == <<"e", "r", "r", "o", "r", "_", "d", "e", "s", "c", "r", "i", "p", "t", "i", "o", "n">>

\* data.k of a parsed body: undefined when there is no such member.
Field(data, k) == IF HasMember(data, k) THEN Member(data, k) ELSE Undefined

\* The TokenResponse both helpers build from a parsed 2xx body.
TokenFields(data) ==
  [access_token |-> Field(data, AccessTokenKey),
   refresh_token |-> Field(data, RefreshTokenKey),
   expires_in |-> Field(data, ExpiresInKey),
   token_type |-> Field(data, TokenTypeKey)]

NoTokens ==
  [access_token |-> Undefined, refresh_token |-> Undefined,
   expires_in |-> Undefined, token_type |-> Undefined]

FullTokenBody ==
  JObj(<< [k |-> AccessTokenKey, v |-> JStr(<<"a", "1">>)],
          [k |-> RefreshTokenKey, v |-> JStr(<<"r", "1">>)],
          [k |-> ExpiresInKey, v |-> JNum(3600)],
          [k |-> TokenTypeKey, v |-> JStr(<<"B", "e", "a", "r", "e", "r">>)] >>)

\* A token body with a member TokenResponse does not have.
ExtraTokenBody == JObj(Append(FullTokenBody.m, [k |-> <<"s", "c", "o", "p", "e">>, v |-> JStr(<<"o", "p", "e", "n", "i", "d">>)]))

\* A token body with an access token only.
PartialTokenBody == JObj(<< [k |-> AccessTokenKey, v |-> JStr(<<"a", "2">>)] >>)

\* A device code body with every member; one without interval and
\* expires_in; one whose interval is 0.
FullDeviceBody ==
  JObj(<< [k |-> DeviceCodeKey, v |-> JStr(<<"d", "1">>)],
          [k |-> UserCodeKey, v |-> JStr(<<"u", "1">>)],
          [k |-> VerificationUriKey, v |-> JStr(<<"v">>)],
          [k |-> VerificationUriCompleteKey, v |-> JStr(<<"v", "c">>)],
          [k |-> IntervalKey, v |-> JNum(3)],
          [k |-> ExpiresInKey, v |-> JNum(600)] >>)

BareDeviceBody ==
  JObj(<< [k |-> DeviceCodeKey, v |-> JStr(<<"d", "2">>)],
          [k |-> UserCodeKey, v |-> JStr(<<"u", "2">>)] >>)

ZeroIntervalDeviceBody ==
  JObj(<< [k |-> DeviceCodeKey, v |-> JStr(<<"d", "3">>)],
          [k |-> IntervalKey, v |-> JNum(0)],
          [k |-> ExpiresInKey, v |-> JNum(900)] >>)

ErrorBody(name) == JObj(<< [k |-> ErrorKey, v |-> JStr(name)] >>)

DescribedErrorBody ==
  JObj(<< [k |-> ErrorKey, v |-> JStr(<<"i", "n", "v", "a", "l", "i", "d", "_", "g", "r", "a", "n", "t">>)],
          [k |-> ErrorDescriptionKey, v |-> JStr(<<"b", "a", "d">>)] >>)

AuthorizationPending == <<"a", "u", "t", "h", "o", "r", "i", "z", "a", "t", "i", "o", "n", "_", "p", "e", "n", "d", "i", "n", "g">>

SlowDown == <<"s", "l", "o", "w", "_", "d", "o", "w", "n">>

ExpiredToken == <<"e", "x", "p", "i", "r", "e", "d", "_", "t", "o", "k", "e", "n">>

AccessDenied == <<"a", "c", "c", "e", "s", "s", "_", "d", "e", "n", "i", "e", "d">>

Answer(status, body) == [kind |-> "response", status |-> status, body |-> body]

Rejection(kind) == [kind |-> kind, status |-> 0, body |-> <<>>]

\* What the token endpoint may do to one request, by name: a response with
\* its status and body text, or a rejected fetch.
OaAnswer(tag) ==
  CASE tag = "200full" -> Answer(200, JSONStringify(FullTokenBody))
    [] tag = "200extra" -> Answer(200, JSONStringify(ExtraTokenBody))
    [] tag = "201partial" -> Answer(201, JSONStringify(PartialTokenBody))
    [] tag = "200device" -> Answer(200, JSONStringify(FullDeviceBody))
    [] tag = "200baredevice" -> Answer(200, JSONStringify(BareDeviceBody))
    [] tag = "200zerodevice" -> Answer(200, JSONStringify(ZeroIntervalDeviceBody))
    [] tag = "200notjson" -> Answer(200, NotJSON)
    [] tag = "200null" -> Answer(200, JSONStringify(JNull))
    [] tag = "403pending" -> Answer(403, JSONStringify(ErrorBody(AuthorizationPending)))
    [] tag = "403slow" -> Answer(403, JSONStringify(ErrorBody(SlowDown)))
    [] tag = "403expired" -> Answer(403, JSONStringify(ErrorBody(ExpiredToken)))
    [] tag = "403denied" -> Answer(403, JSONStringify(ErrorBody(AccessDenied)))
    [] tag = "403described" -> Answer(403, JSONStringify(DescribedErrorBody))
    [] tag = "403empty" -> Answer(403, JSONStringify(JObj(<<>>)))
    [] tag = "403notjson" -> Answer(403, NotJSON)
    [] tag = "400pending" -> Answer(400, JSONStringify(ErrorBody(AuthorizationPending)))
    [] tag = "401" -> Answer(401, JSONStringify(ErrorBody(AccessDenied)))
    [] tag = "500" -> Answer(500, NotJSON)
    [] tag = "network" -> Rejection("TypeError")
    [] tag = "abort" -> Rejection("AbortError")

OaAnswerTags ==
  {"200full", "200extra", "201partial", "200notjson", "200null", "403pending", "403slow",
   "403expired", "403denied", "403described", "403empty", "403notjson", "400pending",
   "401", "500", "network", "abort"}

\* What the device code endpoint may do to the request of initiateDeviceLogin.
OaDeviceTags ==
  {"200device", "200baredevice", "200zerodevice", "200notjson", "200null",
   "401", "500", "network", "abort"}

\* The answers after which pollForToken polls again.
OaContinueTags == {"403pending", "403slow"}

Ok(response) == response.status \in 200..299

\* await response.json(): a SyntaxError for a body that is no JSON.
ResponseJson(response) == JSONParse(response.body)

\* Reading a member of the parsed body throws a TypeError when the body is null.
Readable(parsed) == parsed.ok /\ parsed.val # JNull

Rethrown_All(error) == TRUE

Rethrown_OnlyAuthentication(error) == error.class = "YotoAuthenticationError"

\* The catch block of pollForToken rethrows these as they are.
Rethrown(error) == error.class \in {"YotoAuthenticationError", "YotoAPIError"}

\* The catch block of pollForToken: anything else becomes a connection error.
pollCatch(error) ==
  IF Rethrown(error) THEN error ELSE Err("YotoConnectionError", 0, NoRetryAfter)

IsPending_Never(data) == FALSE

\* errorData.error === "authorization_pending"
IsPending(data) == Field(data, ErrorKey) = JStr(AuthorizationPending)

Resolve(tokens) == [act |-> "return", tokens |-> tokens, error |-> NoError, intervalMs |-> 0]

Sleep(ms) == [act |-> "sleep", tokens |-> NoTokens, error |-> NoError, intervalMs |-> ms]

Throw(error) == [act |-> "throw", tokens |-> NoTokens, error |-> error, intervalMs |-> 0]

SlowedDown_Unchanged(intervalMs) == intervalMs

\* intervalMs += 5000
SlowedDown(intervalMs) == intervalMs + 5000

\* One turn of the loop of pollForToken from the end of its fetch: return
\* the tokens, sleep for the interval given and poll again, or throw.
pollTurn(answer, intervalMs) ==
  IF answer.kind # "response" THEN Throw(pollCatch(Err(answer.kind, 0, NoRetryAfter)))
  ELSE LET parsed == ResponseJson(answer)
           data == parsed.val
       IN IF Ok(answer)
          THEN IF ~parsed.ok THEN Throw(pollCatch(Err("SyntaxError", 0, NoRetryAfter)))
               ELSE IF ~Readable(parsed) THEN Throw(pollCatch(Err("TypeError", 0, NoRetryAfter)))
               ELSE Resolve(TokenFields(data))
          ELSE IF answer.status = 403
          THEN IF ~parsed.ok THEN Throw(pollCatch(Err("SyntaxError", 0, NoRetryAfter)))
               ELSE IF ~Readable(parsed) THEN Throw(pollCatch(Err("TypeError", 0, NoRetryAfter)))
               ELSE IF IsPending(data) THEN Sleep(intervalMs)
               ELSE IF Field(data, ErrorKey) = JStr(SlowDown) THEN Sleep(SlowedDown(intervalMs))
               ELSE Throw(pollCatch(Err("YotoAuthenticationError", 401, NoRetryAfter)))
          ELSE Throw(pollCatch(Err("YotoAPIError", answer.status, NoRetryAfter)))

WrapUnlessAuthentication_WrapsAll(error) == Err("YotoConnectionError", 0, NoRetryAfter)

\* The catch block of refreshAccessToken: an authentication error as it is,
\* anything else as a connection error.
WrapUnlessAuthentication(error) ==
  IF error.class = "YotoAuthenticationError" THEN error
  ELSE Err("YotoConnectionError", 0, NoRetryAfter)

\* refreshAccessToken from the end of its fetch.
refreshAccessTokenAnswered(answer) ==
  IF answer.kind # "response"
  THEN Throw(WrapUnlessAuthentication(Err(answer.kind, 0, NoRetryAfter)))
  ELSE IF ~Ok(answer)
  THEN Throw(WrapUnlessAuthentication(Err("YotoAuthenticationError", 401, NoRetryAfter)))
  ELSE LET parsed == ResponseJson(answer)
       IN IF ~parsed.ok
          THEN Throw(WrapUnlessAuthentication(Err("SyntaxError", 0, NoRetryAfter)))
          ELSE IF ~Readable(parsed)
          THEN Throw(WrapUnlessAuthentication(Err("TypeError", 0, NoRetryAfter)))
          ELSE Resolve(TokenFields(parsed.val))

\* exchangeCodeForTokens from the end of its fetch.
exchangeCodeForTokensAnswered(answer) ==
  IF answer.kind # "response"
  THEN Throw(WrapUnlessAuthentication(Err(answer.kind, 0, NoRetryAfter)))
  ELSE IF ~Ok(answer)
  THEN Throw(WrapUnlessAuthentication(Err("YotoAuthenticationError", 401, NoRetryAfter)))
  ELSE LET parsed == ResponseJson(answer)
       IN IF ~parsed.ok
          THEN Throw(WrapUnlessAuthentication(Err("SyntaxError", 0, NoRetryAfter)))
          ELSE IF ~Readable(parsed)
          THEN Throw(WrapUnlessAuthentication(Err("TypeError", 0, NoRetryAfter)))
          ELSE Resolve(TokenFields(parsed.val))

\* (data.k as number) || d
OrDefault(data, k, d) ==
  IF HasMember(data, k) /\ ~FalsyValue(Member(data, k)) THEN Member(data, k) ELSE JNum(d)

\* The DeviceCodeResponse initiateDeviceLogin builds from a parsed 2xx body.
DeviceFields(data) ==
  [device_code |-> Field(data, DeviceCodeKey),
   user_code |-> Field(data, UserCodeKey),
   verification_uri |-> Field(data, VerificationUriKey),
   verification_uri_complete |-> Field(data, VerificationUriCompleteKey),
   interval |-> OrDefault(data, IntervalKey, 5),
   expires_in |-> OrDefault(data, ExpiresInKey, 300)]

\* initiateDeviceLogin from the end of its fetch.
initiateDeviceLoginAnswered(answer) ==
  IF answer.kind # "response"
  THEN Throw(WrapUnlessAuthentication(Err(answer.kind, 0, NoRetryAfter)))
  ELSE IF ~Ok(answer)
  THEN Throw(WrapUnlessAuthentication(Err("YotoAuthenticationError", 401, NoRetryAfter)))
  ELSE LET parsed == ResponseJson(answer)
       IN IF ~parsed.ok
          THEN Throw(WrapUnlessAuthentication(Err("SyntaxError", 0, NoRetryAfter)))
          ELSE IF ~Readable(parsed)
          THEN Throw(WrapUnlessAuthentication(Err("TypeError", 0, NoRetryAfter)))
          ELSE Resolve(DeviceFields(parsed.val))

\* The interval argument of pollForToken, in seconds: absent (5 by default) or 1.
NoInterval == [has |-> FALSE, val |-> 0]

OaIntervals == {NoInterval, [has |-> TRUE, val |-> 1]}

PollEvent(e, r, ms) == [e |-> e, r |-> r, ms |-> ms]

IdlePoll ==
  [pc |-> "idle", intervalMs |-> 0, log |-> <<>>, tokens |-> NoTokens, error |-> NoError]

IdleRefresh ==
  [pc |-> "idle", requests |-> 0, answer |-> "", tokens |-> NoTokens, error |-> NoError]

\* The controller of a helper call, and what becomes of its timer when the
\* request ends: it has fired when the fetch was aborted, else clearTimeout
\* removes it, in the try block or in the catch block.
RefreshSignal == NewAbortController("refreshAccessToken", 0)

ShotSignal == NewAbortController("helper", 0)

HelperTimers(k, tag) ==
  IF tag = "abort" THEN Fired(timers, k) ELSE Cleared(timers, k)

\* A call of initiateDeviceLogin or exchangeCodeForTokens not yet made.
IdleShot ==
  [helper |-> "", pc |-> "idle", requests |-> 0, answer |-> "", result |-> NoTokens,
   error |-> NoError]

OaOff ==
  /\ oaPoll = IdlePoll
  /\ oaRefresh = IdleRefresh
  /\ oaShot = IdleShot

OaInit ==
  /\ oaPoll = IdlePoll
  /\ oaRefresh = IdleRefresh
  /\ oaShot = IdleShot

\* The polls a pollForToken call has made.
Polls(call) == SelectSeq(call.log, LAMBDA x : x.e = "poll")

\* pollForToken is called: the interval is set and the first request goes out.
PollForToken ==
  /\ oaPoll.pc = "idle"
  /\ \E interval \in OaIntervals :
       oaPoll' = [IdlePoll EXCEPT !.pc = "polling",
                    !.intervalMs = (IF interval.has THEN interval.val ELSE 5) * 1000]
  /\ UNCHANGED <<oaRefresh, oaShot, timers>>
  /\ UNCHANGED NotOa

\* The request of a poll ends; the call returns, throws or goes to sleep.
PollAnswered ==
  /\ oaPoll.pc = "polling"
  /\ \E tag \in OaAnswerTags :
       /\ tag \in OaContinueTags => Len(Polls(oaPoll)) + 1 < MaxPolls
       /\ LET turn == pollTurn(OaAnswer(tag), oaPoll.intervalMs)
              polled == Append(oaPoll.log, PollEvent("poll", tag, 0))
          IN oaPoll' =
               CASE turn.act = "return" ->
                      [oaPoll EXCEPT !.pc = "returned", !.log = polled, !.tokens = turn.tokens]
                 [] turn.act = "throw" ->
                      [oaPoll EXCEPT !.pc = "threw", !.log = polled, !.error = turn.error]
                 [] turn.act = "sleep" ->
                      [oaPoll EXCEPT !.pc = "sleeping", !.intervalMs = turn.intervalMs,
                         !.log = Append(polled, PollEvent("sleep", "", turn.intervalMs))]
  /\ UNCHANGED <<oaRefresh, oaShot, timers>>
  /\ UNCHANGED NotOa

\* The sleep of pollForToken ends: continue, and the next request goes out.
PollWakeUp ==
  /\ oaPoll.pc = "sleeping"
  /\ oaPoll' = [oaPoll EXCEPT !.pc = "polling"]
  /\ UNCHANGED <<oaRefresh, oaShot, timers>>
  /\ UNCHANGED NotOa

\* refreshAccessToken is called: its one request goes out.
RefreshAccessToken ==
  /\ oaRefresh.pc = "idle"
  /\ oaRefresh' = [IdleRefresh EXCEPT !.pc = "fetching", !.requests = 1]
  /\ timers' = Started(timers, RefreshSignal)
  /\ UNCHANGED <<oaPoll, oaShot>>
  /\ UNCHANGED NotOa

RefreshAnswered_RetriesRejections ==
  /\ oaRefresh.pc = "fetching"
  /\ \E tag \in OaAnswerTags :
       LET r == refreshAccessTokenAnswered(OaAnswer(tag))
       IN /\ oaRefresh' =
            IF r.act = "return"
            THEN [oaRefresh EXCEPT !.pc = "returned", !.answer = tag, !.tokens = r.tokens]
            ELSE IF OaAnswer(tag).kind # "response" /\ oaRefresh.requests < 2
            THEN [oaRefresh EXCEPT !.requests = @ + 1, !.answer = tag]
            ELSE [oaRefresh EXCEPT !.pc = "threw", !.answer = tag, !.error = r.error]
          /\ timers' = HelperTimers(RefreshSignal, tag)
  /\ UNCHANGED <<oaPoll, oaShot>>
  /\ UNCHANGED NotOa

\* The request of refreshAccessToken ends; the call returns or throws.
RefreshAnswered ==
  /\ oaRefresh.pc = "fetching"
  /\ \E tag \in OaAnswerTags :
       LET r == refreshAccessTokenAnswered(OaAnswer(tag))
       IN /\ oaRefresh' =
            IF r.act = "return"
            THEN [oaRefresh EXCEPT !.pc = "returned", !.answer = tag, !.tokens = r.tokens]
            ELSE [oaRefresh EXCEPT !.pc = "threw", !.answer = tag, !.error = r.error]
          /\ timers' = HelperTimers(RefreshSignal, tag)
  /\ UNCHANGED <<oaPoll, oaShot>>
  /\ UNCHANGED NotOa

\* initiateDeviceLogin is called: its one request goes out.
InitiateDeviceLogin ==
  /\ oaShot.pc = "idle"
  /\ oaShot' = [IdleShot EXCEPT !.helper = "initiateDeviceLogin", !.pc = "fetching",
                                !.requests = oaShot.requests + 1]
  /\ timers' = Started(timers, ShotSignal)
  /\ UNCHANGED <<oaPoll, oaRefresh>>
  /\ UNCHANGED NotOa

\* The request of initiateDeviceLogin ends; the call returns or throws.
DeviceLoginAnswered ==
  /\ oaShot.pc = "fetching"
  /\ oaShot.helper = "initiateDeviceLogin"
  /\ \E tag \in OaDeviceTags :
       LET r == initiateDeviceLoginAnswered(OaAnswer(tag))
       IN /\ oaShot' =
            IF r.act = "return"
            THEN [oaShot EXCEPT !.pc = "returned", !.answer = tag, !.result = r.tokens]
            ELSE [oaShot EXCEPT !.pc = "threw", !.answer = tag, !.error = r.error]
          /\ timers' = HelperTimers(ShotSignal, tag)
  /\ UNCHANGED <<oaPoll, oaRefresh>>
  /\ UNCHANGED NotOa

\* exchangeCodeForTokens is called: its one request goes out.
ExchangeCodeForTokens ==
  /\ oaShot.pc = "idle"
  /\ oaShot' = [IdleShot EXCEPT !.helper = "exchangeCodeForTokens", !.pc = "fetching",
                                !.requests = oaShot.requests + 1]
  /\ timers' = Started(timers, ShotSignal)
  /\ UNCHANGED <<oaPoll, oaRefresh>>
  /\ UNCHANGED NotOa

\* The request of exchangeCodeForTokens ends; the call returns or throws.
CodeExchangeAnswered ==
  /\ oaShot.pc = "fetching"
  /\ oaShot.helper = "exchangeCodeForTokens"
  /\ \E tag \in OaAnswerTags :
       LET r == exchangeCodeForTokensAnswered(OaAnswer(tag))
       IN /\ oaShot' =
            IF r.act = "return"
            THEN [oaShot EXCEPT !.pc = "returned", !.answer = tag, !.result = r.tokens]
            ELSE [oaShot EXCEPT !.pc = "threw", !.answer = tag, !.error = r.error]
          /\ timers' = HelperTimers(ShotSignal, tag)
  /\ UNCHANGED <<oaPoll, oaRefresh>>
  /\ UNCHANGED NotOa

OaNext == PollForToken \/ PollAnswered \/ PollWakeUp \/ RefreshAccessToken \/ RefreshAnswered

\* The helpers that send one request each.
OaHelpersNext ==
  \/ RefreshAccessToken
  \/ RefreshAnswered
  \/ InitiateDeviceLogin
  \/ DeviceLoginAnswered
  \/ ExchangeCodeForTokens
  \/ CodeExchangeAnswered

----------------------------------------------------------------------------
(* The HTTP request pipeline with caller-supplied headers, and with two    *)
(* request() calls on one HttpClient beside a refreshAccessToken call      *)

\* One call on a client constructed with or without headers of its own, with
\* each kind of options.
HtHeadersInit ==
  /\ htConfig = MaxRetriesOption(1)
  /\ htHeaders \in HtConfigHeaders
  /\ \E options \in HtRequestOptions :
       htCall = [c \in HtCalls |-> [IdleRequest EXCEPT !.options = options]]
  /\ timers = NoTimers

HtPair == {"c1", "c2"}

\* What fetch does in the runs with two calls, when no timer stops it.
HtPairTags == {"200", "500", "network"}

HtPairConfigs == {MaxRetriesOption(1)}

\* What the token endpoint does to the refresh beside them.
OaPairTags == {"200full", "network"}

HtPairInit ==
  /\ htConfig \in HtPairConfigs
  /\ htHeaders = NoHeaders
  /\ htCall = [c \in HtPair |-> IdleRequest]
  /\ timers = NoTimers

\* The jitter is 0 in these runs.
NoJitter == \A c \in HtPair : htCall'[c].delay % 1000 = 0

PairGetToken(c) ==
  /\ GetToken(c)
  /\ htCall'[c].log[Len(htCall'[c].log)] = Event("token", "ok")

\* The network call ends of itself, or at once when its signal is aborted.
PairFetch(c) ==
  /\ Fetch(c)
  /\ LET fetches == SelectSeq(htCall'[c].log, LAMBDA x : x.e = "fetch")
     IN fetches[Len(fetches)].r \in
          (IF htCall[c].signal \in timers.aborted THEN {"abort"} ELSE HtPairTags)
  /\ NoJitter

PairRefreshAnswered ==
  /\ RefreshAnswered
  /\ oaRefresh'.answer \in OaPairTags

\* The timeout timer of controller k fires: controller.abort() rejects every
\* network call in flight that was given the signal of k, and no other.
TimerFires(k) ==
  /\ k \in timers.pending
  /\ timers' = Fired(timers, k)
  /\ \E jitter \in HtJitters :
       htCall' = [c \in DOMAIN htCall |->
                   IF htCall[c].pc = "fetch" /\ htCall[c].signal = k
                   THEN Catch([htCall[c] EXCEPT !.log = Append(@, Event("fetch", "abort"))],
                              Err("AbortError", 0, NoRetryAfter), jitter)
                   ELSE htCall[c]]
  /\ oaRefresh' = IF oaRefresh.pc = "fetching" /\ RefreshSignal = k
                  THEN [oaRefresh EXCEPT
                          !.pc = "threw", !.answer = "abort",
                          !.error = refreshAccessTokenAnswered(OaAnswer("abort")).error]
                  ELSE oaRefresh
  /\ NoJitter
  /\ UNCHANGED <<htConfig, htHeaders, oaPoll, oaShot>>
  /\ UNCHANGED <<whVars, auVars, yoVars>>

HtPairNext ==
  \/ \E c \in HtPair : Request(c)
  \/ \E c \in HtPair : PairGetToken(c)
  \/ \E c \in HtPair : PairFetch(c)
  \/ \E c \in HtPair : WakeUp(c)
  \/ \E k \in timers.pending : TimerFires(k)
  \/ RefreshAccessToken
  \/ PairRefreshAnswered

----------------------------------------------------------------------------
(* The client: the constructor of Yoto, src/src/yoto.ts                    *)

\* config.accessToken: absent, the empty string, a token.
YoAccessTokens == {Undefined, <<>>, <<"t", "o", "k">>}

\* config.auth: absent or an AuthProvider.
YoAuths == {[has |-> FALSE], [has |-> TRUE]}

\* config.maxRetries, handed on to the HttpClient: absent or 1.
YoMaxRetries == {NoMaxRetries, MaxRetriesOption(1)}

YoConfigs ==
  {[accessToken |-> t, auth |-> a, maxRetries |-> r] :
     t \in YoAccessTokens, a \in YoAuths, r \in YoMaxRetries}

YoFacades == {"content", "devices", "family", "familyLibraryGroups", "icons", "media"}

NoYoto ==
  [state |-> "none", config |-> [accessToken |-> Undefined, auth |-> [has |-> FALSE],
                                 maxRetries |-> NoMaxRetries],
   provider |-> "none", client |-> FALSE, facades |-> {}]

\* !config.accessToken && !config.auth
NeitherGiven(config) == Falsy(config.accessToken) /\ ~config.auth.has

BothGiven_Never(config) == FALSE

\* config.accessToken && config.auth
BothGiven(config) == ~Falsy(config.accessToken) /\ config.auth.has

\* The constructor: it throws before anything is constructed, or makes the
\* auth provider, the HttpClient and the six resources.
NewYoto(config) ==
  IF NeitherGiven(config) \/ BothGiven(config)
  THEN [NoYoto EXCEPT !.state = "threw", !.config = config]
  ELSE [state |-> "constructed", config |-> config,
        provider |-> IF config.auth.has THEN "given" ELSE "static",
        client |-> TRUE, facades |-> YoFacades]

YoOff == yoto = NoYoto

YoInit ==
  /\ yoto = NoYoto
  /\ htConfig = NoMaxRetries
  /\ htHeaders = NoHeaders
  /\ htCall = [c \in HtCalls |-> IdleRequest]
  /\ timers = NoTimers

\* new Yoto(config) is evaluated.
Construct ==
  /\ yoto.state = "none"
  /\ \E config \in YoConfigs :
       /\ yoto' = NewYoto(config)
       /\ htConfig' = IF NewYoto(config).client THEN config.maxRetries ELSE htConfig
  /\ UNCHANGED <<htHeaders, htCall, timers>>
  /\ UNCHANGED <<whVars, auVars, oaVars>>

\* A resource of the constructed client calls httpClient.request.
ResourceRequest(c) ==
  /\ yoto.client
  /\ yoto.facades # {}
  /\ Request(c)

\* An attempt asks the client's auth provider for a token: a
\* StaticTokenProvider returns its token, a given provider may also throw.
ProviderToken(c) ==
  /\ GetToken(c)
  /\ yoto.provider = "static"
       => htCall'[c].log[Len(htCall'[c].log)] = Event("token", "ok")

YoNext ==
  \/ Construct
  \/ \E c \in HtCalls : ResourceRequest(c)
  \/ \E c \in HtCalls : ProviderToken(c)
  \/ \E c \in HtCalls : Fetch(c)
  \/ \E c \in HtCalls : WakeUp(c)

----------------------------------------------------------------------------
(* The specifications: one per component, the others at rest               *)

TimersOff == timers = NoTimers

WhOff ==
  /\ whNow = WhEpochMs
  /\ whTicks = 0
  /\ whHeader = Undefined
  /\ whGen = NoGen
  /\ whCall = NoCall

InitWebhook == WhInit /\ AuOff /\ HtOff /\ OaOff /\ YoOff /\ TimersOff

InitExpiry == WhOff /\ ExpiryInit /\ HtOff /\ OaOff /\ YoOff /\ TimersOff

InitProvider == WhOff /\ ProviderInit /\ HtOff /\ OaOff /\ YoOff /\ TimersOff

InitHttp == WhOff /\ AuOff /\ HtInit /\ OaOff /\ YoOff

InitOAuth == WhOff /\ AuOff /\ HtOff /\ OaInit /\ YoOff /\ TimersOff

InitYoto == WhOff /\ AuOff /\ OaOff /\ YoInit

SpecWebhook == InitWebhook /\ [][WhNext]_vars

SpecWebhookReplay == InitWebhook /\ [][WhReplayNext]_vars

SpecExpiry == InitExpiry /\ [][ExpiryNext]_vars

SpecProvider == InitProvider /\ [][ProviderNext]_vars

SpecProviderNetwork == InitProvider /\ [][ProviderNetworkNext]_vars

SpecHttp == InitHttp /\ [][HtNext]_vars

SpecOAuth == InitOAuth /\ [][OaNext]_vars

SpecOAuthHelpers == InitOAuth /\ [][OaHelpersNext]_vars

SpecYoto == InitYoto /\ [][YoNext]_vars

InitHttpHeaders == WhOff /\ AuOff /\ HtHeadersInit /\ OaOff /\ YoOff

SpecHttpHeaders == InitHttpHeaders /\ [][HtNext]_vars

InitHttpPair == WhOff /\ AuOff /\ HtPairInit /\ OaOff /\ YoOff

SpecHttpPair == InitHttpPair /\ [][HtPairNext]_vars

----------------------------------------------------------------------------
(* Webhooks: the properties                                                *)

\* The t and v1 values of the header of the last call.
WhCallHeader == ParseSignatureParts(Split(whCall.signature, ","), Undefined, Undefined)

\* The call's header carries a non-empty t and a non-empty v1.
WhBothKeys ==
  /\ ~Falsy(whCall.signature)
  /\ ~Falsy(WhCallHeader.timestamp)
  /\ ~Falsy(WhCallHeader.providedSignature)

WhCallT == ParseInt(WhCallHeader.timestamp)

WhCallNowS == whCall.now \div 1000

\* The tolerance in force in the last call: 300 s unless the options give one.
WhCallTolerance == IF whCall.options.has THEN whCall.options.tolerance ELSE 300

\* The header's v1 is the digest of "<t>.<payload>" under the call's secret.
WhCallSigned ==
  WhCallHeader.providedSignature
    = HmacSha256Hex(whCall.secret, WhCallHeader.timestamp \o <<".">> \o whCall.payload)

WhTimestampError ==
  whCall.result.kind = "error" /\ whCall.result.message = "Timestamp outside tolerance window"

WhSignatureError ==
  whCall.result.kind = "error" /\ whCall.result.message = "Signature verification failed"

WhFormatError ==
  /\ whCall.result.kind = "error"
  /\ whCall.result.message \in {"No signature provided", "Invalid signature format"}

\* C5: constructEvent returns an event only if the header's v1 equals the hex
\* HMAC of "<t>.<payload>" under the secret and now - t <= tolerance, t being
\* the number the header's t value denotes.
C5_EventOnlyIfSignedAndFresh ==
  (whCall.called /\ whCall.result.kind = "event")
    => /\ WhBothKeys
       /\ WhCallSigned
       /\ ~WhCallT.nan
       /\ WhCallNowS - WhCallT.val <= WhCallTolerance

\* The original payload of a generated header, when it is a JSON value or
\* the serialization of one.
WhOriginalIs(v) ==
  whGen.original \in {ObjectPayload(v), StringPayload(JSONStringify(v))}

\* The last call verifies the generated header, unaltered, with the payload
\* string and the secret it was generated for, within the tolerance.
WhRoundTrip ==
  /\ whCall.called
  /\ whGen.kind = "generated"
  /\ ~whGen.timestamp.has
  /\ whCall.payload = whGen.payload
  /\ whCall.secret = whGen.secret
  /\ WhCallNowS - (whGen.genNow \div 1000) <= WhCallTolerance

\* C6: for every JSON-serializable payload and every secret, constructEvent
\* of the payload with the header generateTestHeaderString made for it (no
\* timestamp given) succeeds and returns an event equal to the payload.
C6_GeneratedHeaderVerifies ==
  \A v \in {EventA, EventB} :
    (WhRoundTrip /\ WhOriginalIs(v))
      => (whCall.result.kind = "event" /\ whCall.result.event = v)

C6_Witness ==
  /\ WhRoundTrip
  /\ whGen.original = ObjectPayload(EventA)
  /\ whCall.now > whGen.genNow
  /\ whCall.result.kind = "event"
  /\ whCall.result.event = EventA

\* The v1 value of the call's header has the length of the valid signature
\* and differs from it in exactly one character.
WhOneCharacterOff ==
  LET valid == HmacSha256Hex(whCall.secret,
                             WhCallHeader.timestamp \o <<".">> \o whCall.payload)
      given == WhCallHeader.providedSignature
  IN /\ Len(given) = Len(valid)
     /\ Cardinality({i \in 1..Len(valid) : given[i] # valid[i]}) = 1

\* C7: a header with an in-tolerance timestamp whose v1 differs from the
\* valid signature in one character makes constructEvent fail with
\* "Signature verification failed" and with no other error.
C7_AlteredSignatureRejected ==
  ( /\ whCall.called
    /\ whGen.kind = "altered"
    /\ WhBothKeys
    /\ ~WhCallT.nan
    /\ WhCallNowS - WhCallT.val <= WhCallTolerance
    /\ WhOneCharacterOff )
    => WhSignatureError

\* C8: for a header with both keys, the timestamp failure is raised exactly
\* when now - t > tolerance (300 s, or the tolerance given, 0 included): not
\* at now - t = tolerance, and at tolerance + 1.
C8_ToleranceBoundary ==
  (whCall.called /\ WhBothKeys /\ ~WhCallT.nan)
    => (WhTimestampError <=> WhCallNowS - WhCallT.val > WhCallTolerance)

C8_Witness ==
  /\ whCall.called
  /\ WhBothKeys
  /\ ~whCall.options.has
  /\ WhCallNowS - WhCallT.val = 300
  /\ whCall.result.kind = "event"

\* C9: a timestamp in the future is never a reason to reject: for t > now
\* the timestamp failure is not raised, and with a valid signature over
\* "<t>.<payload>" and a JSON payload the event is returned.
C9_FutureTimestampAccepted ==
  (whCall.called /\ WhBothKeys /\ ~WhCallT.nan /\ WhCallT.val > WhCallNowS)
    => /\ ~WhTimestampError
       /\ (WhCallSigned /\ JSONParse(whCall.payload).ok) => whCall.result.kind = "event"

C9_Witness ==
  /\ whCall.called
  /\ WhBothKeys
  /\ WhCallT.val > WhCallNowS + 90000
  /\ whCall.result.kind = "event"

\* Some part of the header has the key, read as the code reads it: the text
\* before the first "=" of a part between commas.
WhHasKey(key) ==
  /\ ~Falsy(whCall.signature)
  /\ \E i \in 1..Len(Split(whCall.signature, ",")) :
       Split(Split(whCall.signature, ",")[i], "=")[1] = key

\* C10: a missing or empty header, and a header without a t key or without a
\* v1 key, is a format error, whatever its timestamp and signature are.
C10_FormatErrorFirst ==
  (whCall.called /\ (Falsy(whCall.signature) \/ ~WhHasKey(<<"t">>) \/ ~WhHasKey(<<"v", "1">>)))
    => WhFormatError

\* A header with only a t key, verified after its timestamp has left the
\* tolerance window, is still a format error.
C10_Witness ==
  /\ whCall.called
  /\ whGen.kind = "crafted"
  /\ whGen.craft = "only_t"
  /\ WhCallNowS - ParseInt(WhCallHeader.timestamp).val > WhCallTolerance
  /\ whCall.result.message = "Invalid signature format"

WhJSONError ==
  whCall.result.kind = "error" /\ whCall.result.message = "Invalid JSON payload"

\* The call's header has both keys and a numeric t within the tolerance.
WhInTolerance ==
  /\ WhBothKeys
  /\ ~WhCallT.nan
  /\ WhCallNowS - WhCallT.val <= WhCallTolerance

\* C11: constructEvent checks format, timestamp, signature and JSON in that
\* order and raises the first failure: an out-of-tolerance header raises the
\* timestamp failure whatever its signature, a payload that is not JSON
\* raises the payload error when it is signed and in tolerance, and some
\* other error, never the payload error, when its signature is wrong.
C11_ChecksInOrder ==
  whCall.called =>
    /\ ~WhBothKeys => WhFormatError
    /\ (WhBothKeys /\ ~WhCallT.nan /\ WhCallNowS - WhCallT.val > WhCallTolerance)
         => WhTimestampError
    /\ (WhInTolerance /\ ~WhCallSigned)
         => (whCall.result.kind = "error" /\ ~WhJSONError /\ ~WhTimestampError /\ ~WhFormatError)
    /\ (WhInTolerance /\ WhCallSigned /\ ~JSONParse(whCall.payload).ok) => WhJSONError
    /\ (WhInTolerance /\ WhCallSigned /\ JSONParse(whCall.payload).ok)
         => whCall.result.kind = "event"

\* A signed payload that is not JSON is verified after time has passed, still
\* within the tolerance, and raises the payload error.
C11_Witness ==
  /\ whCall.called
  /\ WhInTolerance
  /\ WhCallSigned
  /\ whCall.payload = NotJSON
  /\ whCall.now > whGen.genNow
  /\ WhJSONError

\* An out-of-tolerance header whose signature is wrong as well.
C11_WitnessTimestampFirst ==
  /\ whCall.called
  /\ WhBothKeys
  /\ ~WhCallT.nan
  /\ WhCallNowS - WhCallT.val > WhCallTolerance
  /\ ~WhCallSigned
  /\ WhTimestampError

----------------------------------------------------------------------------
(* Auth: the properties                                                    *)

\* The kinds of token that do not decode to a JSON payload.
AuUndecodable ==
  {"two_parts", "opaque", "empty_payload", "bad_base64", "one_mod_four", "not_json"}

\* C4: isTokenExpired is false for an exp more than 30 s after now; true for
\* an exp within 30 s of now or in the past, for a payload without exp and
\* for a token that does not decode; at exp = now + 30 s exactly it is false.
C4_IsTokenExpiredCases ==
  auCheck.called =>
    /\ (auCheck.token.kind = "jwt" /\ auCheck.token.exp * 1000 > auCheck.now + 30000)
         => ~auCheck.result
    /\ (auCheck.token.kind = "jwt" /\ auCheck.token.exp * 1000 < auCheck.now + 30000)
         => auCheck.result
    /\ (auCheck.token.kind = "jwt" /\ auCheck.token.exp * 1000 = auCheck.now + 30000)
         => ~auCheck.result
    /\ (auCheck.token.kind = "no_exp" \/ auCheck.token.kind \in AuUndecodable)
         => auCheck.result

\* An exp that is still ahead, by less than the buffer, reads as expired.
C4_Witness ==
  /\ auCheck.called
  /\ auCheck.token.kind = "jwt"
  /\ auCheck.token.exp * 1000 > auCheck.now
  /\ auCheck.token.exp * 1000 < auCheck.now + 30000
  /\ auCheck.result

\* C3 as stated: whatever the refresh responses, every token getAccessToken
\* returns is not expired at the moment it is returned.
C3_ReturnedTokenNotExpired ==
  \A c \in AuCallers :
    auCall[c].pc = "returned" => ~isTokenExpired(auCall[c].result, auCall[c].retNow)

\* C3 as amended: a call that returns without a refresh returns the held
\* token, which is not expired at that moment; a call that found the held
\* token expired refreshed first and returns the access token of that
\* refresh response, whatever its expiry.
C3_RefreshesFirstWhenExpired ==
  \A c \in AuCallers :
    auCall[c].pc = "returned" =>
      IF auCall[c].refreshed
      THEN /\ isTokenExpired(auCall[c].held, auCall[c].checkNow)
           /\ auCall[c].result = auCall[c].response
      ELSE /\ ~isTokenExpired(auCall[c].held, auCall[c].checkNow)
           /\ auCall[c].result = auCall[c].held
           /\ auCall[c].retNow = auCall[c].checkNow

\* A call found the held token expired only after time had passed, refreshed
\* and returned the access token of the response.
C3_Witness ==
  \E c \in AuCallers :
    /\ auCall[c].pc = "returned"
    /\ auCall[c].refreshed
    /\ auCall[c].held = TokenString(Token("jwt", 1030))
    /\ auCall[c].result = auCall[c].response
    /\ ~isTokenExpired(auCall[c].result, auCall[c].retNow)

----------------------------------------------------------------------------
(* The HTTP request pipeline: the properties                               *)

HtDone(c) == htCall[c].pc \in {"returned", "threw"}

\* The events of one kind in the log of a call.
HtEvents(c, e) == SelectSeq(htCall[c].log, LAMBDA x : x.e = e)

\* The number of network attempts a call has made.
HtAttempts(c) == Len(HtEvents(c, "fetch"))

HtSleeps(c) == Len(HtEvents(c, "sleep"))

\* Every token request of the call succeeded and every network call was
\* answered 429 without a Retry-After header.
HtAlways429(c) ==
  /\ \A i \in 1..Len(htCall[c].log) :
       /\ htCall[c].log[i].e = "token" => htCall[c].log[i].r = "ok"
       /\ htCall[c].log[i].e = "fetch" => htCall[c].log[i].r = "429"

\* C1: for every N >= 0, with maxRetries configured as N and a dependency that
\* always answers 429 without Retry-After, a request() call makes exactly
\* N + 1 network attempts and then throws the YotoRateLimitError.
C1_RateLimitedAttempts ==
  \A c \in HtCalls :
    (htConfig.has /\ HtDone(c) /\ HtAlways429(c))
      => /\ HtAttempts(c) = htConfig.val + 1
         /\ htCall[c].pc = "threw"
         /\ htCall[c].error.class = "YotoRateLimitError"

\* The first attempt of the call got its token and was answered 401.
HtFirstAttempt401(c) ==
  /\ Len(htCall[c].log) >= 2
  /\ htCall[c].log[1] = Event("token", "ok")
  /\ htCall[c].log[2] = Event("fetch", "401")

\* C2: a 401 on the first attempt ends the call: one network attempt, no
\* sleep, a YotoAuthenticationError thrown, whatever maxRetries is.
C2_UnauthorizedNotRetried ==
  \A c \in HtCalls :
    HtFirstAttempt401(c)
      => /\ htCall[c].pc = "threw"
         /\ htCall[c].error.class = "YotoAuthenticationError"
         /\ HtAttempts(c) = 1
         /\ HtSleeps(c) = 0
         /\ htCall[c].attempt = 0

C2_Witness ==
  \E c \in HtCalls :
    /\ HtFirstAttempt401(c)
    /\ maxRetries(htConfig) = 2
    /\ htCall[c].pc = "threw"
    /\ HtAttempts(c) = 1

----------------------------------------------------------------------------
(* The OAuth helpers: the properties                                       *)

OaTokenTags == {"200full", "200extra", "201partial"}

\* The TokenResponse a token body should give: its four members, a missing
\* one undefined, a further one dropped.
OaExpectedTokens(tag) ==
  IF tag = "201partial"
  THEN [access_token |-> JStr(<<"a", "2">>), refresh_token |-> Undefined,
        expires_in |-> Undefined, token_type |-> Undefined]
  ELSE [access_token |-> JStr(<<"a", "1">>), refresh_token |-> JStr(<<"r", "1">>),
        expires_in |-> JNum(3600), token_type |-> JStr(<<"B", "e", "a", "r", "e", "r">>)]

OaSleeps(call) == SelectSeq(call.log, LAMBDA x : x.e = "sleep")

\* Every poll but the last was answered 403 authorization_pending and the
\* last one 2xx with a token body.
OaPendingThenTokens ==
  LET polls == Polls(oaPoll)
  IN /\ polls # <<>>
     /\ polls[Len(polls)].r \in OaTokenTags
     /\ \A i \in 1..(Len(polls) - 1) : polls[i].r = "403pending"

\* C12: the first poll goes out without a sleep before it; every
\* authorization_pending answer is followed by one sleep of the interval and
\* then the next poll; and after k such answers and a 2xx token answer the
\* call has resolved with the token body's fields after k + 1 polls and k
\* sleeps.
C12_PendingThenTokens ==
  LET log == oaPoll.log
  IN /\ log # <<>> => log[1].e = "poll"
     /\ \A i \in 1..Len(log) :
          /\ log[i] = PollEvent("poll", "403pending", 0)
               => (i < Len(log) /\ log[i + 1].e = "sleep")
          /\ (log[i].e = "sleep" /\ i < Len(log)) => log[i + 1].e = "poll"
          /\ log[i].e = "sleep" => (i > 1 /\ log[i - 1].e = "poll")
     /\ OaPendingThenTokens =>
          /\ oaPoll.pc = "returned"
          /\ Len(OaSleeps(oaPoll)) = Len(Polls(oaPoll)) - 1
          /\ Len(log) = 2 * Len(Polls(oaPoll)) - 1
          /\ \A i \in 1..Len(log) : log[i].e = "sleep" => log[i].ms = oaPoll.intervalMs
          /\ oaPoll.tokens = OaExpectedTokens(log[Len(log)].r)

\* Two pending answers, then the tokens: three polls, two sleeps of 5 s.
C12_Witness ==
  /\ OaPendingThenTokens
  /\ oaPoll.pc = "returned"
  /\ Len(Polls(oaPoll)) = 3
  /\ Len(OaSleeps(oaPoll)) = 2
  /\ oaPoll.intervalMs = 5000
  /\ oaPoll.tokens = OaExpectedTokens("200full")

\* The answers pollForToken throws on, by the error the claim gives them.
OaAuthenticationTags == {"403expired", "403denied", "403described"}

OaAPITags == {"400pending", "401", "500"}

OaNetworkTags == {"network", "abort"}

\* C13: pollForToken throws a YotoAuthenticationError on a 403 naming
\* expired_token or another OAuth error, a YotoAPIError with the status on
\* any other non-2xx status, a YotoConnectionError on a failed network call;
\* the poll that threw is the last one.
C13_PollErrors ==
  LET log == oaPoll.log
  IN \A i \in 1..Len(log) :
       /\ (log[i].e = "poll" /\ log[i].r \in OaAuthenticationTags)
            => /\ i = Len(log)
               /\ oaPoll.pc = "threw"
               /\ oaPoll.error.class = "YotoAuthenticationError"
       /\ (log[i].e = "poll" /\ log[i].r \in OaAPITags)
            => /\ i = Len(log)
               /\ oaPoll.pc = "threw"
               /\ oaPoll.error.class = "YotoAPIError"
               /\ oaPoll.error.status = OaAnswer(log[i].r).status
       /\ (log[i].e = "poll" /\ log[i].r \in OaNetworkTags)
            => /\ i = Len(log)
               /\ oaPoll.pc = "threw"
               /\ oaPoll.error.class = "YotoConnectionError"

\* After a pending answer and a sleep, a 500 ends the polling with a YotoAPIError.
C13_Witness ==
  /\ oaPoll.pc = "threw"
  /\ Len(Polls(oaPoll)) = 2
  /\ oaPoll.log[Len(oaPoll.log)].r = "500"
  /\ oaPoll.error.class = "YotoAPIError"
  /\ oaPoll.error.status = 500

\* C16: refreshAccessToken throws a YotoAuthenticationError for a non-2xx
\* answer and a YotoConnectionError for a failed network call and for
\* anything else thrown on the way (a 2xx body that is no JSON or is null),
\* and returns the four token fields of a 2xx body as they are, a missing one
\* undefined; it sends one request.
C16_RefreshMapsAnswers ==
  oaRefresh.pc \in {"returned", "threw"} =>
    /\ oaRefresh.requests = 1
    /\ (OaAnswer(oaRefresh.answer).kind = "response"
        /\ OaAnswer(oaRefresh.answer).status \notin 200..299)
         => (oaRefresh.pc = "threw" /\ oaRefresh.error.class = "YotoAuthenticationError")
    /\ oaRefresh.answer \in OaNetworkTags \cup {"200notjson", "200null"}
         => (oaRefresh.pc = "threw" /\ oaRefresh.error.class = "YotoConnectionError")
    /\ oaRefresh.answer \in OaTokenTags
         => (oaRefresh.pc = "returned"
             /\ oaRefresh.tokens = OaExpectedTokens(oaRefresh.answer))

\* A 2xx body with an access token only: the other fields stay undefined.
C16_Witness ==
  /\ oaRefresh.pc = "returned"
  /\ oaRefresh.answer = "201partial"
  /\ oaRefresh.tokens.access_token = JStr(<<"a", "2">>)
  /\ oaRefresh.tokens.refresh_token = Undefined

----------------------------------------------------------------------------
(* The HTTP request pipeline: errors and retries                           *)

\* The attempt in which the i-th event of the call's log happened: each
\* attempt begins by asking for a token.
HtAttemptOf(c, i) ==
  Cardinality({j \in 1..i : htCall[c].log[j].e = "token"}) - 1

\* The i-th event of the log ended the call: it is the last one and the call
\* has thrown.
HtThrewAt(c, i) == i = Len(htCall[c].log) /\ htCall[c].pc = "threw"

\* The i-th event of the log was followed by a sleep.
HtSleptAfter(c, i) == i < Len(htCall[c].log) /\ htCall[c].log[i + 1].e = "sleep"

\* C14: an authentication error, a connection error raised while the token
\* is obtained and a network call that fails without an HTTP response end
\* the call in that attempt, without a sleep and a further attempt.
C14_AuthAndNetworkNotRetried ==
  \A c \in HtCalls :
    \A i \in 1..Len(htCall[c].log) :
      ( \/ htCall[c].log[i] \in {Event("token", "YotoAuthenticationError"),
                                 Event("token", "YotoConnectionError")}
        \/ htCall[c].log[i] \in {Event("fetch", "401"), Event("fetch", "401nojson"),
                                 Event("fetch", "network")} )
        => HtThrewAt(c, i)

\* C15: a network call aborted by the timeout in an attempt before the last
\* is followed by a sleep and another attempt; the call does not throw there.
C15_TimeoutIsTransient ==
  \A c \in HtCalls :
    \A i \in 1..Len(htCall[c].log) :
      (htCall[c].log[i] = Event("fetch", "abort")
       /\ HtAttemptOf(c, i) < maxRetries(htConfig))
        => /\ HtSleptAfter(c, i)
           /\ \/ (htCall[c].pc \in {"sleeping", "token"} /\ Len(htCall[c].log) = i + 1)
              \/ (Len(htCall[c].log) > i + 1 /\ htCall[c].log[i + 2].e = "token")

\* The first network call timed out and the call went on to another one.
C15_Witness ==
  \E c \in HtCalls :
    /\ Len(htCall[c].log) >= 5
    /\ htCall[c].log[2] = Event("fetch", "abort")
    /\ htCall[c].log[3].e = "sleep"
    /\ htCall[c].log[5].e = "fetch"

\* The last thing the call did was a network call answered with a non-2xx status.
HtLastAnswered(c, tag) ==
  LET log == htCall[c].log
  IN \/ (log # <<>> /\ log[Len(log)] = Event("fetch", tag))
     \/ (Len(log) >= 2 /\ log[Len(log)].e = "sleep" /\ log[Len(log) - 1] = Event("fetch", tag))

\* The retryAfter a YotoRateLimitError carries: nothing without the header,
\* else the number the header parses to.
HtRetryAfterOf(tag) ==
  CASE tag = "429ra2" -> [has |-> TRUE, num |-> Num(2)]
    [] tag = "429ra0" -> [has |-> TRUE, num |-> Num(0)]
    [] tag = "429date" -> [has |-> TRUE, num |-> NaN]
    [] OTHER -> NoRetryAfter

\* C18: the error raised for a non-2xx answer is a YotoAuthenticationError
\* exactly for 401, a YotoRateLimitError exactly for 429, with the
\* Retry-After header's number when there is one, and a YotoAPIError with the
\* status otherwise, whether or not the body is JSON.
C18_ErrorClassification ==
  \A c \in HtCalls :
    \A tag \in {"401", "401nojson", "404", "429", "429ra2", "429ra0", "429date", "500"} :
      HtLastAnswered(c, tag) =>
        LET status == HtResponse(tag).status
            error == htCall[c].lastError
        IN /\ error.class = "YotoAuthenticationError" <=> status = 401
           /\ error.class = "YotoRateLimitError" <=> status = 429
           /\ error.class = "YotoAPIError" <=> status \notin {401, 429}
           /\ error.class \in {"YotoAuthenticationError", "YotoRateLimitError", "YotoAPIError"}
           /\ error.status = status
           /\ error.retryAfter = HtRetryAfterOf(tag)

\* A 429 with Retry-After: 2: the error carries 2.
C18_Witness ==
  \E c \in HtCalls :
    /\ HtLastAnswered(c, "429ra2")
    /\ htCall[c].lastError.class = "YotoRateLimitError"
    /\ htCall[c].lastError.retryAfter.num = Num(2)

\* C19: the delay slept after a failed attempt is min(1000 * 2^attempt +
\* jitter, 10000) ms with 0 <= jitter < 1000, but after a rate-limit error
\* that carries a Retry-After value it is that many seconds.
C19_RetryDelay ==
  \A c \in HtCalls :
    htCall[c].pc = "sleeping" =>
      LET log == htCall[c].log
          last == log[Len(log) - 1]
          attempt == htCall[c].attempt
      IN IF last.e = "fetch" /\ last.r \in {"429ra2", "429ra0"}
         THEN htCall[c].delay = HtRetryAfterOf(last.r).num.val * 1000
         ELSE \E jitter \in 0..999 :
                htCall[c].delay = Min(1000 * (2 ^ attempt) + jitter, 10000)

\* The error the last event of the log raised.
HtErrorOfLast(c) ==
  LET last == htCall[c].log[Len(htCall[c].log)]
      response == HtResponse(last.r)
  IN IF last.e = "token" THEN Err(last.r, 0, NoRetryAfter)
     ELSE IF response.kind # "response" THEN Err(response.kind, 0, NoRetryAfter)
     ELSE IF response.status \in 200..299 THEN Err("SyntaxError", 0, NoRetryAfter)
     ELSE Err(CASE response.status = 401 -> "YotoAuthenticationError"
                [] response.status = 429 -> "YotoRateLimitError"
                [] OTHER -> "YotoAPIError",
              response.status, HtRetryAfterOf(last.r))

\* C20: a call whose maxRetries + 1 attempts have all failed throws the
\* error of its last attempt, as it is.
C20_LastErrorThrown ==
  \A c \in HtCalls :
    (htCall[c].pc = "threw" /\ htCall[c].attempt = maxRetries(htConfig))
      => /\ HtAttemptOf(c, Len(htCall[c].log)) = maxRetries(htConfig)
         /\ htCall[c].error = HtErrorOfLast(c)

\* Two attempts answered 500, then a 429 with Retry-After: the
\* YotoRateLimitError is thrown.
C20_Witness ==
  \E c \in HtCalls :
    /\ htCall[c].pc = "threw"
    /\ htCall[c].attempt = 2
    /\ maxRetries(htConfig) = 2
    /\ htCall[c].log[2] = Event("fetch", "500")
    /\ htCall[c].log[Len(htCall[c].log)] = Event("fetch", "429ra2")
    /\ htCall[c].error.class = "YotoRateLimitError"

----------------------------------------------------------------------------
(* The client: the properties                                              *)

\* An access token is provided: config.accessToken is a non-empty string.
YoTokenProvided == yoto.config.accessToken \notin {Undefined, <<>>}

YoAuthProvided == yoto.config.auth.has

\* C17: new Yoto(config) succeeds exactly when one of accessToken and auth
\* is provided and the other is not; when it throws there is no HttpClient and
\* no resource, and no request is ever made; when it succeeds the client and
\* all six resources exist, over the given provider or a static one.
C17_ExactlyOneCredential ==
  yoto.state # "none" =>
    /\ yoto.state = "constructed" <=> (YoTokenProvided /\ ~YoAuthProvided)
                                       \/ (~YoTokenProvided /\ YoAuthProvided)
    /\ yoto.state = "threw" =>
         /\ ~yoto.client
         /\ yoto.facades = {}
         /\ yoto.provider = "none"
         /\ \A c \in HtCalls : htCall[c] = IdleRequest
    /\ yoto.state = "constructed" =>
         /\ yoto.client
         /\ yoto.facades = YoFacades
         /\ yoto.provider = IF YoAuthProvided THEN "given" ELSE "static"

\* Both credentials given: the constructor has thrown.
C17_Witness ==
  /\ YoTokenProvided
  /\ YoAuthProvided
  /\ yoto.state = "threw"
  /\ ~yoto.client

\* One credential given: a resource of the client has made a request.
C17_WitnessConstructed ==
  /\ YoTokenProvided
  /\ ~YoAuthProvided
  /\ yoto.state = "constructed"
  /\ \E c \in HtCalls : htCall[c].pc = "returned"

----------------------------------------------------------------------------
(* The RefreshableAuthProvider: overlapping calls and the token slot       *)

\* Caller c sends a refresh request in this step.
AuSendsRefresh(c) == auCall[c].pc # "refreshing" /\ auCall'[c].pc = "refreshing"

\* Caller c calls getAccessToken in this step.
AuCalls(c) ==
  /\ auStarted' # auStarted
  /\ \A d \in AuCallers \ {c} : auCall'[d] = auCall[d]

\* C21: nothing keeps a getAccessToken call from refreshing while another
\* refresh is under way: every call that finds the held token expired sends
\* a refresh request with the refresh token held at that moment, whatever the
\* other callers are doing, so that two requests with one refresh token can be
\* under way at once.
C21_NoMutualExclusion ==
  [][\A c \in AuCallers :
       /\ AuSendsRefresh(c) =>
            /\ isTokenExpired(auTokens.access_token, auNow)
            /\ auCall'[c].sent = auTokens.refresh_token
       /\ (AuCalls(c) /\ auCall'[c].pc = "returned")
            => ~isTokenExpired(auTokens.access_token, auNow)]_vars

\* Both callers have a refresh request under way, with the same refresh token.
C21_Witness ==
  /\ auCall["a"].pc = "refreshing"
  /\ auCall["b"].pc = "refreshing"
  /\ auCall["a"].sent = auCall["b"].sent
  /\ auCall["a"].sent = RefreshToken(0)

\* The refresh of caller c ends with a pair in this step.
AuRefreshSucceeds(c) == auCall[c].pc = "refreshing" /\ auCall'[c].pc = "returned"

\* C30: when a refresh succeeds, the slot holds the pair of its response and
\* the call returns that pair's access token; a refresh request always
\* carries the refresh token of the pair in the slot, the one of the refresh
\* that ended last.
C30_SlotHoldsRefreshedPair ==
  [][\A c \in AuCallers :
       /\ AuRefreshSucceeds(c) =>
            /\ \E response \in RefreshResponses(auNow, auIssued) :
                 /\ response.kind = "2xx"
                 /\ auTokens' = response.body
                 /\ auCall'[c].result = response.body.access_token
            /\ auCall'[c].result = auTokens'.access_token
       /\ AuSendsRefresh(c) => auCall'[c].sent = auTokens.refresh_token]_vars

\* A second refresh, begun after the first one ended, carries the refresh
\* token the first one brought.
C30_Witness ==
  \E c \in AuCallers :
    /\ auCall[c].pc = "refreshing"
    /\ auIssued = 1
    /\ auTokens.refresh_token = RefreshToken(1)
    /\ auCall[c].sent = RefreshToken(1)

----------------------------------------------------------------------------
(* The single-shot OAuth helpers                                           *)

\* The answers that are a failure: a rejected fetch or a non-2xx response.
OaFailed(tag) == OaAnswer(tag).kind # "response" \/ ~Ok(OaAnswer(tag))

\* A helper call in its one request, or ended by the answer to it.
OaSingleShot(call) ==
  /\ call.pc = "fetching" => (call.requests = 1 /\ call.answer = "")
  /\ call.pc \in {"returned", "threw"} =>
       /\ call.requests = 1
       /\ call.answer # ""
       /\ OaFailed(call.answer) => call.pc = "threw"
       /\ OaAnswer(call.answer).kind # "response" =>
            (call.pc = "threw" /\ call.error.class = "YotoConnectionError")
       /\ (OaAnswer(call.answer).kind = "response" /\ ~Ok(OaAnswer(call.answer))) =>
            call.error.class = "YotoAuthenticationError"

\* C22: a call of refreshAccessToken, initiateDeviceLogin or
\* exchangeCodeForTokens sends one request and ends with the answer to it: a
\* rejected fetch makes it throw a connection error and a non-2xx response an
\* authentication error, with no second request.
C22_HelpersSingleShot ==
  /\ OaSingleShot(oaRefresh)
  /\ OaSingleShot(oaShot)

\* A refresh and a device login have each thrown after their one request
\* was rejected.
C22_Witness ==
  /\ oaRefresh.pc = "threw"
  /\ oaRefresh.answer = "network"
  /\ oaRefresh.requests = 1
  /\ oaShot.helper = "initiateDeviceLogin"
  /\ oaShot.pc = "threw"
  /\ oaShot.answer = "abort"
  /\ oaShot.requests = 1

\* A code exchange has thrown after its one request was rejected; a device
\* login has returned the device code with the default interval.

C22_WitnessCodeExchange ==
  /\ oaShot.helper = "exchangeCodeForTokens"
  /\ oaShot.pc = "threw"
  /\ oaShot.answer = "network"
  /\ oaShot.error.class = "YotoConnectionError"

C22_WitnessDeviceDefaults ==
  /\ oaShot.pc = "returned"
  /\ oaShot.answer = "200zerodevice"
  /\ oaShot.result.interval = JNum(5)
  /\ oaShot.result.expires_in = JNum(900)

----------------------------------------------------------------------------
(* The HTTP request pipeline: attempts, tokens, timers and overlapping calls *)

HtTypeOK == \A c \in DOMAIN htCall : htCall[c].attempt \in 0..DEFAULT_MAX_RETRIES

\* The maxRetries the client was configured with, 3 when none was given.
HtConfigured == IF htConfig.has THEN htConfig.val ELSE DEFAULT_MAX_RETRIES

\* The attempts a call has begun: each begins by asking for a token.
HtBegun(c) == Len(HtEvents(c, "token")) + (IF htCall[c].pc = "token" THEN 1 ELSE 0)

\* A call within n retries: at most n + 1 attempts, its counter in 0..n and
\* equal to the number of its own sleeps that have ended, and over once the
\* last of n + 1 attempts has ended.
HtWithin(c, n) ==
  /\ HtBegun(c) <= n + 1
  /\ htCall[c].attempt \in 0..n
  /\ htCall[c].attempt =
       HtSleeps(c) - (IF htCall[c].pc = "sleeping" THEN 1 ELSE 0)
  /\ htCall[c].pc = "idle" => htCall[c].attempt = 0
  /\ (HtBegun(c) = n + 1 /\ htCall[c].pc \notin {"token", "fetch"}) => HtDone(c)

\* C23: a request() call makes at most maxRetries + 1 attempts and then
\* returns or throws; its counter stays in 0..maxRetries and is its own, so
\* that every call begins at 0, for the maxRetries the client was configured
\* with.
C23_AttemptsBounded == \A c \in DOMAIN htCall : HtWithin(c, HtConfigured)

\* The same for the maxRetries the constructor stored, which is 3 for a
\* configured 0.
C23_AttemptsBoundedAsStored == \A c \in DOMAIN htCall : HtWithin(c, maxRetries(htConfig))

\* A call on a client configured with maxRetries 0 is in its fourth attempt.
C23_Witness ==
  \E c \in HtCalls :
    /\ htConfig = MaxRetriesOption(0)
    /\ htCall[c].attempt = 3
    /\ htCall[c].pc = "fetch"

\* One call is in its second attempt while the other begins its first.
C23_WitnessTwoCalls ==
  /\ DOMAIN htCall = HtPair
  /\ htCall["c1"].attempt = 1
  /\ htCall["c1"].pc = "fetch"
  /\ htCall["c2"].attempt = 0
  /\ htCall["c2"].pc = "token"
  /\ htCall["c2"].duringSleep

\* The token requests of the call succeeded and every network call was
\* answered with a status that is not 2xx, 401 or 429.
HtAlwaysAPIError(c) ==
  \A i \in 1..Len(htCall[c].log) :
    /\ htCall[c].log[i].e = "token" => htCall[c].log[i].r = "ok"
    /\ htCall[c].log[i].e = "fetch" => htCall[c].log[i].r \in {"404", "500"}

\* A call that has ended after n + 1 network attempts, each but the last
\* followed by a sleep, by throwing the YotoAPIError of the last answer.
HtGaveUpAfter(c, n) ==
  /\ HtAttempts(c) = n + 1
  /\ HtSleeps(c) = n
  /\ \A i \in 1..Len(htCall[c].log) :
       htCall[c].log[i].e = "fetch" => (HtSleptAfter(c, i) <=> i < Len(htCall[c].log))
  /\ htCall[c].pc = "threw"
  /\ htCall[c].error.class = "YotoAPIError"
  /\ htCall[c].error.status = HtResponse(htCall[c].log[Len(htCall[c].log)].r).status

\* The sleep the call is in follows a status other than 429: its delay is the
\* capped exponential one.
HtBackoff(c) ==
  \E jitter \in HtJitters :
    htCall[c].delay = Min(1000 * (2 ^ htCall[c].attempt) + jitter, 10000)

\* C24: against a dependency that always answers with a non-2xx status other
\* than 401 and 429, a call makes maxRetries + 1 network attempts, sleeps the
\* exponential delay after each but the last and throws a YotoAPIError with
\* the status, for the maxRetries the client was configured with.
C24_APIErrorExhaustsRetries ==
  \A c \in HtCalls :
    HtAlwaysAPIError(c) =>
      /\ HtDone(c) => HtGaveUpAfter(c, HtConfigured)
      /\ htCall[c].pc = "sleeping" => HtBackoff(c)

\* The same for the maxRetries the constructor stored.
C24_APIErrorExhaustsRetriesAsStored ==
  \A c \in HtCalls :
    HtAlwaysAPIError(c) =>
      /\ HtDone(c) => HtGaveUpAfter(c, maxRetries(htConfig))
      /\ htCall[c].pc = "sleeping" => HtBackoff(c)

\* Three attempts answered 500, 404, 500 with maxRetries 2.
C24_Witness ==
  \E c \in HtCalls :
    /\ htConfig = MaxRetriesOption(2)
    /\ HtAlwaysAPIError(c)
    /\ htCall[c].pc = "threw"
    /\ HtAttempts(c) = 3
    /\ htCall[c].error.status = 500

\* The i-th event of the log is a network call answered with a 2xx status.
HtAnswered2xx(c, i) ==
  /\ htCall[c].log[i].e = "fetch"
  /\ HtResponse(htCall[c].log[i].r).status \in 200..299

\* C25: a 2xx response ends the call: it is the last event of the log and the
\* call has returned.
C25_SuccessEndsCall ==
  \A c \in HtCalls :
    \A i \in 1..Len(htCall[c].log) :
      HtAnswered2xx(c, i) => (i = Len(htCall[c].log) /\ htCall[c].pc = "returned")

\* The same for the 2xx responses whose body is JSON.
C25_JSONSuccessEndsCall ==
  \A c \in HtCalls :
    \A i \in 1..Len(htCall[c].log) :
      (HtAnswered2xx(c, i) /\ HtResponse(htCall[c].log[i].r).json)
        => (i = Len(htCall[c].log) /\ htCall[c].pc = "returned")

\* A call has returned after a retry.
C25_Witness ==
  \E c \in HtCalls :
    /\ htCall[c].pc = "returned"
    /\ HtAttempts(c) = 2
    /\ HtAnswered2xx(c, Len(htCall[c].log))

\* A 204 was followed by another network call.
C25_WitnessRetriedSuccess ==
  \E c \in HtCalls :
    /\ Len(htCall[c].log) >= 5
    /\ htCall[c].log[2] = Event("fetch", "204")
    /\ htCall[c].log[5].e = "fetch"

\* Every network call of the call follows a getAccessToken call of its own
\* attempt: the token requests that succeeded are as many as the network
\* calls begun, and each network call that ended has the token request of its
\* attempt right before it in the log.
HtTokenPerAttempt(c) ==
  /\ Len(SelectSeq(htCall[c].log, LAMBDA x : x = Event("token", "ok")))
       = Len(htCall[c].net)
  /\ \A i \in 1..Len(htCall[c].log) :
       htCall[c].log[i].e = "fetch" =>
         (i > 1 /\ htCall[c].log[i - 1] = Event("token", "ok"))
  /\ \A i, j \in 1..Len(htCall[c].net) :
       i # j => htCall[c].net[i].token # htCall[c].net[j].token

\* C26: each attempt asks for a token before its network call, and the
\* network call carries that token as its bearer credential, not the token of
\* an earlier attempt.
C26_FreshTokenCarried ==
  \A c \in HtCalls :
    /\ HtTokenPerAttempt(c)
    /\ \A i \in 1..Len(htCall[c].net) :
         htCall[c].net[i].authorization = Bearer(htCall[c].net[i].token)

\* The same where neither config.headers nor options.headers has an
\* Authorization header; where one has, its value is what is carried.
C26_FreshTokenUnlessOwnHeader ==
  \A c \in HtCalls :
    /\ HtTokenPerAttempt(c)
    /\ \A i \in 1..Len(htCall[c].net) :
         htCall[c].net[i].authorization =
           IF Header(htCall[c].options.headers, AuthorizationName) # Undefined
           THEN Header(htCall[c].options.headers, AuthorizationName)
           ELSE IF Header(htHeaders, AuthorizationName) # Undefined
           THEN Header(htHeaders, AuthorizationName)
           ELSE Bearer(htCall[c].net[i].token)

\* A retry has carried the token of its own attempt.
C26_Witness ==
  \E c \in HtCalls :
    /\ Len(htCall[c].net) = 2
    /\ htCall[c].net[1].authorization = Bearer(IssuedToken(c, 0))
    /\ htCall[c].net[2].authorization = Bearer(IssuedToken(c, 1))

\* A network call has carried the Authorization header of config.headers.
C26_WitnessOwnHeader ==
  \E c \in HtCalls :
    /\ htHeaders # NoHeaders
    /\ htCall[c].options = PlainOptions
    /\ Len(htCall[c].net) = 1
    /\ htCall[c].net[1].authorization = OwnCredential

\* The network calls of a call that have begun and not ended.
HtInFlight(c) == Len(htCall[c].net) - HtAttempts(c)

\* C27: a call has at most one network call in flight, and only while it
\* waits for fetch; each network call after the first follows a failed
\* attempt, the sleep after it and the token request made after the sleep
\* ended, and none follows an answer that ended the call.
C27_OneAttemptInFlight ==
  \A c \in DOMAIN htCall :
    /\ HtInFlight(c) \in {0, 1}
    /\ HtInFlight(c) = 1 <=> htCall[c].pc = "fetch"
    /\ htCall[c].pc = "sleeping" =>
         htCall[c].log[Len(htCall[c].log)] = Event("sleep", "")
    /\ \A i \in 1..Len(htCall[c].log) :
         (htCall[c].log[i].e = "fetch" /\ HtAttemptOf(c, i) > 0) =>
           /\ i >= 4
           /\ htCall[c].log[i - 1] = Event("token", "ok")
           /\ htCall[c].log[i - 2] = Event("sleep", "")
           /\ htCall[c].log[i - 3].e \in {"token", "fetch"}
           /\ htCall[c].log[i - 3] \notin {Event("token", "ok"), Event("fetch", "200")}
    /\ Len(htCall[c].net) <= HtAttemptOf(c, Len(htCall[c].log)) + 1

\* The second network call of a call is in flight while the other call waits
\* for its first.
C27_Witness ==
  /\ DOMAIN htCall = HtPair
  /\ htCall["c1"].pc = "fetch"
  /\ Len(htCall["c1"].net) = 2
  /\ HtAttempts("c1") = 1
  /\ htCall["c2"].pc = "fetch"
  /\ Len(htCall["c2"].net) = 1

\* C28: while one call sleeps between retries, every other call on the client
\* can take its next step: begin, ask for its token, get the answer of its
\* network call; the sleep holds up the sleeping call alone.
C28_SleepSuspendsOnlyItsCall ==
  \A c, d \in DOMAIN htCall :
    (c # d /\ htCall[d].pc = "sleeping") =>
      /\ htCall[c].pc = "idle" => ENABLED Request(c)
      /\ htCall[c].pc = "token" => ENABLED PairGetToken(c)
      /\ htCall[c].pc = "fetch" => ENABLED PairFetch(c)
      /\ htCall[c].pc = "sleeping" => ENABLED WakeUp(c)

\* The first call is in its first sleep; the second began during that sleep,
\* made two attempts and has returned.
C28_Witness ==
  /\ DOMAIN htCall = HtPair
  /\ htCall["c1"].pc = "sleeping"
  /\ HtSleeps("c1") = 1
  /\ htCall["c2"].duringSleep
  /\ htCall["c2"].pc = "returned"
  /\ HtAttempts("c2") = 2

\* The network calls in flight, by owner: those of the request() calls and
\* that of refreshAccessToken; and the signal each was given.
NetInFlight ==
  {c \in DOMAIN htCall : htCall[c].pc = "fetch"}
    \cup (IF oaRefresh.pc = "fetching" THEN {"refreshAccessToken"} ELSE {})

SignalOf(owner) ==
  IF owner = "refreshAccessToken" THEN RefreshSignal ELSE htCall[owner].signal

\* The network call of this owner is rejected with an AbortError in this step.
AbortedInStep(owner) ==
  /\ owner \in NetInFlight
  /\ IF owner = "refreshAccessToken"
     THEN oaRefresh'.pc = "threw" /\ oaRefresh'.answer = "abort"
     ELSE LET fetches == SelectSeq(htCall'[owner].log, LAMBDA x : x.e = "fetch")
          IN /\ htCall'[owner].log # htCall[owner].log
             /\ fetches[Len(fetches)].r = "abort"

\* No two network calls in flight have one signal, and no attempt has the
\* signal of an earlier attempt of its call.
OwnSignals ==
  /\ \A a, b \in NetInFlight : a # b => SignalOf(a) # SignalOf(b)
  /\ \A c \in DOMAIN htCall :
       \A i, j \in 1..Len(htCall[c].net) :
         i # j => htCall[c].net[i].signal # htCall[c].net[j].signal

\* C29: every attempt and every refreshAccessToken call has a controller of
\* its own, so that a timeout timer that fires rejects at most one network
\* call, the one that was given its signal, and leaves every other call in
\* flight as it is.
C29_TimeoutAbortsOnlyItsAttempt ==
  /\ []OwnSignals
  /\ [][\A k \in timers.pending :
          (k \in timers'.aborted) =>
            /\ Cardinality({owner \in NetInFlight : AbortedInStep(owner)}) <= 1
            /\ \A owner \in NetInFlight :
                 IF SignalOf(owner) = k
                 THEN AbortedInStep(owner)
                 ELSE /\ owner \in DOMAIN htCall => htCall'[owner] = htCall[owner]
                      /\ owner = "refreshAccessToken" => oaRefresh' = oaRefresh]_vars

\* The timer of the first call's first attempt has fired and the call sleeps,
\* while the network calls of the second call and of the refresh are still in
\* flight with their timers pending.
C29_Witness ==
  /\ DOMAIN htCall = HtPair
  /\ htCall["c1"].log = <<Event("token", "ok"), Event("fetch", "abort"), Event("sleep", "")>>
  /\ timers.aborted = {NewAbortController("c1", 0)}
  /\ NetInFlight = {"c2", "refreshAccessToken"}
  /\ {htCall["c2"].signal, RefreshSignal} \subseteq timers.pending

\* A timer left over from a failed attempt has fired during a later attempt,
\* whose network call then ended of itself.
C29_WitnessStaleTimer ==
  /\ DOMAIN htCall = HtPair
  /\ NewAbortController("c1", 0) \in timers.aborted
  /\ htCall["c1"].log = <<Event("token", "ok"), Event("fetch", "network"), Event("sleep", ""),
                          Event("token", "ok"), Event("fetch", "200")>>

----------------------------------------------------------------------------
(* pollForToken: the interval and the exits                                *)

\* The slow_down answers among the first n events of the log.
OaSlowDowns(log, n) ==
  Cardinality({j \in 1..n : log[j] = PollEvent("poll", "403slow", 0)})

\* The interval the call began with: its argument, or 5 seconds.
OaFirstInterval == oaPoll.intervalMs - 5000 * OaSlowDowns(oaPoll.log, Len(oaPoll.log))

\* C31: every sleep of pollForToken lasts the interval the call began with
\* plus 5000 ms for each slow_down answer so far: a slow_down adds 5000 ms
\* before the sleep that follows it and for every later sleep, an
\* authorization_pending adds nothing, and no sleep is shorter than the one
\* before it.
C31_IntervalGrowsBySlowDown ==
  LET log == oaPoll.log
  IN /\ oaPoll.pc # "idle" => OaFirstInterval \in {1000, 5000}
     /\ \A i \in 1..Len(log) :
          log[i].e = "sleep" =>
            /\ log[i].ms = OaFirstInterval + 5000 * OaSlowDowns(log, i)
            /\ \A j \in 1..(i - 1) : log[j].e = "sleep" => log[j].ms <= log[i].ms
            /\ (i > 2 /\ log[i - 1].r = "403pending") => log[i].ms = log[i - 2].ms
            /\ (i > 2 /\ log[i - 1].r = "403slow") => log[i].ms = log[i - 2].ms + 5000

\* slow_down, authorization_pending, slow_down from the default interval:
\* sleeps of 10, 10 and 15 seconds.
C31_Witness ==
  /\ Len(oaPoll.log) = 6
  /\ oaPoll.log[2] = PollEvent("sleep", "", 10000)
  /\ oaPoll.log[3] = PollEvent("poll", "403pending", 0)
  /\ oaPoll.log[4] = PollEvent("sleep", "", 10000)
  /\ oaPoll.log[5] = PollEvent("poll", "403slow", 0)
  /\ oaPoll.log[6] = PollEvent("sleep", "", 15000)

\* C32: pollForToken is over only when it has returned the tokens of a 2xx
\* answer or thrown a YotoAuthenticationError, a YotoAPIError or a
\* YotoConnectionError; after an authorization_pending or slow_down answer it
\* sleeps and polls again, and any other answer, or a failed network call,
\* is its last poll.
C32_PollExits ==
  LET log == oaPoll.log
      polls == Polls(oaPoll)
  IN /\ oaPoll.pc = "returned" =>
          /\ log # <<>>
          /\ log[Len(log)].e = "poll"
          /\ Ok(OaAnswer(log[Len(log)].r))
          /\ oaPoll.tokens = TokenFields(ResponseJson(OaAnswer(log[Len(log)].r)).val)
     /\ oaPoll.pc = "threw" =>
          /\ log # <<>>
          /\ log[Len(log)].e = "poll"
          /\ oaPoll.error.class \in
               {"YotoAuthenticationError", "YotoAPIError", "YotoConnectionError"}
     /\ \A i \in 1..Len(polls) :
          IF polls[i].r \in OaContinueTags
          THEN i = Len(polls) => oaPoll.pc \in {"sleeping", "polling"}
          ELSE i = Len(polls) /\ oaPoll.pc \in {"returned", "threw"}
     /\ oaPoll.pc \in {"sleeping", "polling"} =>
          \A i \in 1..Len(polls) : polls[i].r \in OaContinueTags

\* After three answers that keep it polling the call is still not over.
C32_Witness ==
  /\ Len(Polls(oaPoll)) = 3
  /\ \A i \in 1..3 : Polls(oaPoll)[i].r \in OaContinueTags
  /\ oaPoll.pc = "polling"

\* A 2xx answer whose body is no JSON has ended the call with a
\* YotoConnectionError.
C32_WitnessUnreadable ==
  /\ oaPoll.pc = "threw"
  /\ oaPoll.log[Len(oaPoll.log)].r = "200notjson"
  /\ oaPoll.error.class = "YotoConnectionError"

----------------------------------------------------------------------------
(* The HTTP request pipeline: the Authorization header and the timers      *)

\* C33: every network call carries Authorization: Bearer and the token of
\* its attempt, whatever headers the client was constructed with and the
\* call was given, for a JSON and for a binary body.
C33_BearerNotReplaced ==
  \A c \in HtCalls :
    \A i \in 1..Len(htCall[c].net) :
      /\ htCall[c].net[i].authorization # Undefined
      /\ htCall[c].net[i].authorization = Bearer(htCall[c].net[i].token)

\* The same for the calls that are given no Authorization header on a
\* client constructed without one.
C33_BearerWhenNoOwnHeader ==
  \A c \in HtCalls :
    (/\ Header(htHeaders, AuthorizationName) = Undefined
     /\ Header(htCall[c].options.headers, AuthorizationName) = Undefined)
      => \A i \in 1..Len(htCall[c].net) :
           htCall[c].net[i].authorization = Bearer(htCall[c].net[i].token)

\* A call with a binary body and a Content-Type of its own has carried the
\* bearer token.
C33_Witness ==
  \E c \in HtCalls :
    /\ htCall[c].options.binary
    /\ Header(htCall[c].options.headers, ContentTypeName) # Undefined
    /\ Len(htCall[c].net) = 1
    /\ htCall[c].net[1].authorization = Bearer(IssuedToken(c, 0))

\* A call with a binary body has carried the Authorization header of its
\* options instead.
C33_WitnessReplaced ==
  \E c \in HtCalls :
    /\ htCall[c].options.binary
    /\ htHeaders = NoHeaders
    /\ Len(htCall[c].net) = 1
    /\ htCall[c].net[1].authorization = OwnCredential

\* The timeout timers of the attempts of call c that are pending.
HtPending(c) == {k \in timers.pending : k[1] = c}

\* C34: the only timer of a call that is pending is the one of the attempt
\* under way; none is pending while the call sleeps between attempts or once
\* it has returned or thrown.
C34_TimersCleared ==
  \A c \in HtCalls :
    /\ htCall[c].pc \in {"token", "fetch"} => HtPending(c) \subseteq {htCall[c].signal}
    /\ htCall[c].pc \in {"sleeping", "returned", "threw"} => HtPending(c) = {}

\* The same for the attempts whose fetch resolved with a response or was
\* aborted by the timer: the attempts that ended otherwise are left out.
C34_TimersClearedAfterResponse ==
  \A c \in HtCalls :
    (\A i \in 1..Len(htCall[c].log) :
       /\ htCall[c].log[i].e = "token" => htCall[c].log[i].r = "ok"
       /\ htCall[c].log[i].e = "fetch" => htCall[c].log[i].r # "network")
      => /\ htCall[c].pc \in {"token", "fetch"} => HtPending(c) \subseteq {htCall[c].signal}
         /\ htCall[c].pc \in {"sleeping", "returned", "threw"} => HtPending(c) = {}

\* A call has returned after a 500 and a 200 with no timer pending.
C34_Witness ==
  \E c \in HtCalls :
    /\ htCall[c].pc = "returned"
    /\ HtAttempts(c) = 2
    /\ HtPending(c) = {}

\* A call has thrown the authentication error of its auth provider in its
\* first attempt and the timer of that attempt is still pending.
C34_WitnessLeftPending ==
  \E c \in HtCalls :
    /\ htCall[c].pc = "threw"
    /\ htCall[c].log = <<Event("token", "YotoAuthenticationError")>>
    /\ HtPending(c) = {NewAbortController(c, 0)}

----------------------------------------------------------------------------
(* The RefreshableAuthProvider: failed refreshes and the refresh token     *)

\* The refresh of caller c fails in this step.
AuRefreshFails(c) == auCall[c].pc = "refreshing" /\ auCall'[c].pc = "threw"

\* C35: a refresh that fails makes its getAccessToken call throw the
\* authentication or connection error and leaves the slot as it was; the
\* caller's next getAccessToken, when the slot still holds the pair the failed
\* call found, sends a refresh with the same refresh token.
C35_FailedRefreshKeepsSlot ==
  [][\A c \in AuCallers :
       /\ AuRefreshFails(c) =>
            /\ auTokens' = auTokens
            /\ auCall'[c].error \in {"YotoAuthenticationError", "YotoConnectionError"}
            /\ auCall'[c].result = Undefined
       /\ (/\ auCall[c].pc = "threw"
           /\ AuCalls(c)
           /\ auCall'[c] # auCall[c]
           /\ auTokens.access_token = auCall[c].held
           /\ auTokens.refresh_token = auCall[c].sent)
            => /\ auCall'[c].pc = "refreshing"
               /\ auCall'[c].sent = auCall[c].sent]_vars

\* After a refresh that failed with a connection error the caller has a
\* second refresh under way, with the refresh token it began with.
C35_Witness ==
  \E c \in AuCallers :
    /\ auStarted = 2
    /\ auIssued = 0
    /\ auCall[c].pc = "refreshing"
    /\ auCall[c].sent = RefreshToken(0)
    /\ \A d \in AuCallers \ {c} : auCall[d].pc = "idle"

\* C36: the refresh token in the slot is a string that is not empty, at any
\* time, and so is the refresh token every refresh request carries.
C36_RefreshTokenKept ==
  /\ ~Falsy(auTokens.refresh_token)
  /\ \A c \in AuCallers : auCall[c].pc = "refreshing" => ~Falsy(auCall[c].sent)

\* A second refresh has succeeded, with the refresh token of the first.
C36_Witness ==
  /\ auIssued = 2
  /\ auTokens.refresh_token = RefreshToken(2)

\* A refresh request is under way without a refresh token, after a refresh
\* response that had none.
C36_WitnessSentUndefined ==
  \E c \in AuCallers :
    /\ auIssued = 1
    /\ auCall[c].pc = "refreshing"
    /\ auCall[c].sent = Undefined

\* Both callers found the token expired, both refreshes succeeded and both
\* responses have arrived.
AuBothRefreshed ==
  \A c \in AuCallers :
    /\ auCall[c].pc = "returned"
    /\ auCall[c].refreshed
    /\ auCall[c].inflight.kind = "2xx"

\* The call whose response the server issued last.
AuIssuedLast ==
  CHOOSE c \in AuCallers : \A d \in AuCallers : auCall[d].inflight.n <= auCall[c].inflight.n

\* C37: after two overlapping refreshes that both succeeded the slot holds
\* the pair the server issued last, in whatever order the responses arrived.
C37_LastIssuedPairWins ==
  (AuBothRefreshed /\ auStarted = 2) => auTokens = auCall[AuIssuedLast].inflight.body

\* The responses arrived in the order in which they were issued.
C37_Witness ==
  /\ AuBothRefreshed
  /\ auStarted = 2
  /\ auCall["a"].sent = auCall["b"].sent
  /\ auTokens.refresh_token = RefreshToken(2)

\* The response issued first arrived last and is what the slot holds.
C37_WitnessOverwritten ==
  /\ AuBothRefreshed
  /\ auStarted = 2
  /\ auCall["a"].inflight.body.refresh_token = RefreshToken(1)
  /\ auCall["b"].inflight.body.refresh_token = RefreshToken(2)
  /\ auTokens.refresh_token = RefreshToken(1)

----------------------------------------------------------------------------
(* The HTTP request pipeline: sleeps and the errors of the auth provider   *)

\* C38: a call sleeps between attempts only: its log never begins with a
\* sleep, every sleep but one under way is followed by the token request of
\* the next attempt, and a call that is over after k attempts has slept k - 1
\* times, the last event of its log being no sleep.
C38_SleepsBetweenAttempts ==
  \A c \in HtCalls :
    LET log == htCall[c].log
        k == Len(HtEvents(c, "token"))
    IN /\ log # <<>> => log[1].e = "token"
       /\ \A i \in 1..Len(log) :
            log[i].e = "sleep" =>
              /\ i > 1 /\ log[i - 1].e \in {"token", "fetch"}
              /\ IF i = Len(log) THEN htCall[c].pc \in {"sleeping", "token"}
                 ELSE log[i + 1].e = "token"
       /\ HtDone(c) =>
            /\ k >= 1
            /\ HtSleeps(c) = k - 1
            /\ log[Len(log)].e # "sleep"

\* A call has thrown after four attempts and three sleeps.
C38_Witness ==
  \E c \in HtCalls :
    /\ htCall[c].pc = "threw"
    /\ Len(HtEvents(c, "token")) = 4
    /\ HtSleeps(c) = 3

\* The attempts of a call in which the auth provider threw the error class.
HtTokenThrew(c, class) ==
  {i \in 1..Len(htCall[c].log) : htCall[c].log[i] = Event("token", class)}

\* C39: a YotoAuthenticationError or YotoConnectionError thrown by
\* getAccessToken ends the call at once: it is the last event of the call, the
\* call has thrown an error of that class, and the attempt has issued no
\* network call (the call has issued one per token it was given) and is
\* followed by no sleep and no further attempt.
C39_ProviderErrorEndsCall ==
  \A c \in HtCalls :
    \A class \in {"YotoAuthenticationError", "YotoConnectionError"} :
      \A i \in HtTokenThrew(c, class) :
        /\ i = Len(htCall[c].log)
        /\ htCall[c].pc = "threw"
        /\ htCall[c].error.class = class
        /\ htCall[c].error = htCall[c].lastError
        /\ Len(htCall[c].net) = Cardinality(HtTokenThrew(c, "ok"))
        /\ Cardinality(HtTokenThrew(c, "ok")) = Len(HtEvents(c, "fetch"))

\* After a retried attempt the auth provider throws a YotoConnectionError and
\* the call throws it.
C39_Witness ==
  \E c \in HtCalls :
    /\ htCall[c].pc = "threw"
    /\ HtSleeps(c) = 1
    /\ HtTokenThrew(c, "YotoConnectionError") = {Len(htCall[c].log)}
    /\ htCall[c].error.class = "YotoConnectionError"

\* The auth provider throws a YotoAuthenticationError in the first attempt.
C39_WitnessFirstAttempt ==
  \E c \in HtCalls :
    /\ htCall[c].pc = "threw"
    /\ htCall[c].log = <<Event("token", "YotoAuthenticationError")>>
    /\ htCall[c].net = <<>>

----------------------------------------------------------------------------
(* Webhooks: repeated verifications                                        *)

\* The constructEvent calls of the run, in order.
WhCallsMade ==
  IF whCall.called
  THEN <<[payload |-> whCall.payload, signature |-> whCall.signature,
          secret |-> whCall.secret, options |-> whCall.options,
          now |-> whCall.now, result |-> whCall.result]>> \o whCall.later
  ELSE <<>>

WhHeaderOf(k) == ParseSignatureParts(Split(k.signature, ","), Undefined, Undefined)

\* The call's header has a numeric t and the v1 that is the digest of
\* "<t>.<payload>" under the call's secret.
WhValidlySigned(k) ==
  /\ ~Falsy(k.signature)
  /\ ~Falsy(WhHeaderOf(k).timestamp)
  /\ ~Falsy(WhHeaderOf(k).providedSignature)
  /\ ~ParseInt(WhHeaderOf(k).timestamp).nan
  /\ WhHeaderOf(k).providedSignature
       = HmacSha256Hex(k.secret, WhHeaderOf(k).timestamp \o <<".">> \o k.payload)

\* now - t <= tolerance at the time of the call.
WhWithinTolerance(k) ==
  (k.now \div 1000) - ParseInt(WhHeaderOf(k).timestamp).val
    <= (IF k.options.has THEN k.options.tolerance ELSE TIMESTAMP_TOLERANCE)

\* C40: constructEvent keeps no state between calls: of two calls of a run
\* with the same payload, header and secret, validly signed and both within
\* the tolerance, the later has the result of the earlier; the result is the
\* event the payload denotes when the payload is JSON; and the result of
\* every call is the one its own arguments and its own time give, whatever
\* calls were made before it.
C40_ReplayReturnsSameEvent ==
  /\ \A i \in 1..Len(WhCallsMade) :
       \A j \in (i + 1)..Len(WhCallsMade) :
         LET first == WhCallsMade[i]
             again == WhCallsMade[j]
         IN (/\ again.payload = first.payload
             /\ again.signature = first.signature
             /\ again.secret = first.secret
             /\ WhValidlySigned(first)
             /\ WhWithinTolerance(first)
             /\ WhWithinTolerance(again))
              => /\ again.result = first.result
                 /\ JSONParse(first.payload).ok
                      => again.result = Returned(JSONParse(first.payload).val)
  /\ \A i \in 2..Len(WhCallsMade) :
       LET k == WhCallsMade[i]
       IN k.result = constructEvent(k.payload, k.signature, k.secret, k.options, k.now)

\* An event is returned, time passes, and the same call is made again within
\* the tolerance and returns the same event.
C40_Witness ==
  /\ Len(WhCallsMade) = 2
  /\ WhCallsMade[1].result.kind = "event"
  /\ WhCallsMade[2].payload = WhCallsMade[1].payload
  /\ WhCallsMade[2].secret = WhCallsMade[1].secret
  /\ WhCallsMade[2].now > WhCallsMade[1].now
  /\ WhValidlySigned(WhCallsMade[2])
  /\ WhWithinTolerance(WhCallsMade[2])
  /\ WhCallsMade[2].result = WhCallsMade[1].result

\* A verification under the wrong secret fails, and the next one under the
\* right secret returns the event.
C40_WitnessAfterFailure ==
  /\ Len(WhCallsMade) = 2
  /\ WhCallsMade[1].result = Thrown("Error", "Signature verification failed")
  /\ WhCallsMade[2].payload = WhCallsMade[1].payload
  /\ WhCallsMade[2].secret # WhCallsMade[1].secret
  /\ WhCallsMade[2].result.kind = "event"

\* The same header is accepted, and refused once the tolerance has run out.
C40_WitnessExpired ==
  /\ Len(WhCallsMade) = 2
  /\ WhCallsMade[1].result.kind = "event"
  /\ WhCallsMade[2].payload = WhCallsMade[1].payload
  /\ WhCallsMade[2].secret = WhCallsMade[1].secret
  /\ ~WhWithinTolerance(WhCallsMade[2])
  /\ WhCallsMade[2].result = Thrown("Error", "Timestamp outside tolerance window")

====
